---- MODULE Spec2Model ----
(***************************************************************************)
(* Model of the ember terminal client: the session state machine of        *)
(* internal/ui/app.go (event loop, section cache, navigation stack,        *)
(* fan-out mutation, cover cache), the URL-keyed render cache of           *)
(* internal/ui/image.go and the player controller of                       *)
(* internal/player/mpv.go.                                                 *)
(*                                                                         *)
(* Asynchronous commands (tea.Cmd) are records in `tasks` / `imgReq`:      *)
(* a command is issued by a handler, served (its network call is answered  *)
(* from the catalog state srvFav / srvPos) and delivered (its message is   *)
(* handled by Update).  Serving and delivering happen in any order.        *)
(***************************************************************************)
EXTENDS Integers, Sequences, FiniteSets, Bags, TLC

----------------------------------------------------------------------------
(* Bounds *)

MaxTasks == 2       \* list/favorite/play commands in flight at once
MaxNav == 2         \* depth of the navigation stack explored
MaxPos == 1         \* largest playback offset (seconds) a player run reports
MaxKeys == 4        \* key presses handled in one session
MaxResizes == 1     \* resize events received in one session
MaxImgKeys == 1     \* key presses in a session that follows the image commands
MaxSrvKeys == 5     \* key presses in a session that manages servers
MaxOut == 4         \* symbols the player process writes to its output
MaxStart == 2       \* largest start position (seconds) handed to the player
MaxCalls == 3       \* store calls followed in one session of the commands

MaxFolderKeys == 5  \* key presses in a session that pages through a folder
MaxTwiceKeys == 2   \* key presses in a session that receives messages twice
MaxStoreKeys == 6   \* key presses in a session that follows the data files
MaxEpisodes == 4    \* episodes in the season played continuously
MaxWords == 2       \* words in one input of the server edit form
MaxProfiles == 3    \* server profiles stored at one time

----------------------------------------------------------------------------
(* The remote catalog: four media items and a folder, their types and     *)
(* hierarchy links                                                        *)

Ids == 1 .. 5

ItemType(i) ==
    CASE i = 1 -> "Series"
      [] i = 2 -> "Season"
      [] i = 3 -> "Episode"
      [] i = 4 -> "Movie"
      [] OTHER -> "Folder"

SeriesIDOf(i) == IF i \in {2, 3} THEN 1 ELSE 0
SeasonIDOf(i) == IF i = 3 THEN 2 ELSE 0
ParentIDOf(i) == CASE i = 2 -> 1 [] i = 3 -> 2 [] OTHER -> 0

TicksPerSecond == 10000000

\* the favorites the catalog holds when the session starts
InitFavorites == {{}, 1 .. 4}

Sections == {"Resume", "Favorites", "Search"}

\* a missing map entry of sectionCache / coverCache
NoList == [has |-> FALSE, list |-> <<>>]
NoCover == [has |-> FALSE, w |-> 0, h |-> 0, ph |-> FALSE]

St(s, n) == [s |-> s, n |-> n]

VARIABLES
    state, section, items, totalItems, page, cursor, navStack, currentLib,
    status, searchInput, width, height,
    coverCache, detailCache, sectionCache, sectionCursor,
    lastPlayPosition, lastReportOK,
    storePos,
    tasks, imgReq,
    srvFav, srvPos,
    imageCache,
    last, favSet, keys, resizes, mpv,
    srv, probe,
    store, call

mvars == <<state, section, items, totalItems, page, cursor, navStack,
           currentLib, status, searchInput, width, height, coverCache,
           detailCache, sectionCache, sectionCursor, lastPlayPosition,
           lastReportOK>>

vars == <<mvars, storePos, tasks, imgReq, srvFav, srvPos, imageCache,
          last, favSet, keys, resizes, mpv, srv, probe, store, call>>

----------------------------------------------------------------------------
(* Pure helpers *)

Min(a, b) == IF a < b THEN a ELSE b
Max(a, b) == IF a > b THEN a ELSE b

RECURSIVE SeqSelectIds(_, _)
SeqSelectIds(s, keep) ==
    IF s = <<>> THEN <<>>
    ELSE IF Head(s) \in keep THEN <<Head(s)>> \o SeqSelectIds(Tail(s), keep)
         ELSE SeqSelectIds(Tail(s), keep)

\* an item as the catalog returns it: UserData taken from the server state
ServerItem(i) == [id |-> i, fav |-> srvFav[i], pos |-> srvPos[i]]

\* the list answered by the catalog for a list request
ServerList(what, arg) ==
    LET ids == CASE what = "resume" -> <<3, 4>>
                 [] what = "favorites" ->
                        SeqSelectIds(<<1, 2, 3, 4, 5>>, {i \in Ids : srvFav[i]})
                 [] what = "search" -> <<1, 4>>
                 [] what = "seasons" -> IF arg = 1 THEN <<2>> ELSE <<>>
                 [] what = "episodes" -> IF arg = 2 THEN <<3>> ELSE <<>>
                 [] what = "items" -> IF arg = 5 THEN <<4>> ELSE <<>>
                 [] OTHER -> <<>>
    IN [k \in 1 .. Len(ids) |-> ServerItem(ids[k])]

pageSize == 20

\* the items the folder holds (TotalRecordCount of its listing): one more
\* than a page, so that the listing has two pages; a page of the listing is
\* represented by its first item
FolderTotal == pageSize + 1

\* the total the catalog reports with a list
ServerTotal(what, arg) ==
    IF what = "items" /\ arg = 5 THEN FolderTotal ELSE Len(ServerList(what, arg))

IdsOf(list) == [k \in 1 .. Len(list) |-> list[k].id]

----------------------------------------------------------------------------
(* Commands in flight *)

BaseTask == [kind |-> "", what |-> "", arg |-> 0, sec |-> "", phase |-> "req",
             id |-> 0, flag |-> FALSE, err |-> FALSE, list |-> <<>>,
             total |-> 0, pos |-> 0, ok |-> FALSE, twice |-> 0]

\* loadResume, loadFavorites, searchItems, loadSeasons, loadEpisodes,
\* loadItems, goToSeason, goToSeries: one list request; sec records the
\* section that is current when the request is issued
FetchCmd(what, arg, sec) ==
    [BaseTask EXCEPT !.kind = "fetch", !.what = what, !.arg = arg, !.sec = sec]

toggleFavorite(item) ==
    [BaseTask EXCEPT !.kind = "fav", !.id = item.id, !.flag = ~item.fav]

PlayCmd(id, startPosSec) ==
    [BaseTask EXCEPT !.kind = "play", !.id = id, !.pos = startPosSec]

loadImage(id, w, h) == [kind |-> "image", id |-> id, w |-> w, h |-> h,
                        phase |-> "req", ph |-> FALSE, rw |-> 0, rh |-> 0,
                        twice |-> 0]

loadDetail(id) == [kind |-> "detail", id |-> id, w |-> 0, h |-> 0,
                   phase |-> "req", ph |-> FALSE, rw |-> 0, rh |-> 0,
                   twice |-> 0]

statusWidth == 24

\* the cover dimensions loadVisibleImages derives from the terminal size
coverWidth(w) == (w - statusWidth) - 2
coverHeight(h) == h - 4

\* loadVisibleImages: the image requests for the items at cursor-2..cursor+2
\* that have no cover yet, and the detail request for the item under the cursor

loadVisibleImages(its, cur, cc, dc, w, h) ==
    IF Len(its) = 0 THEN {}
    ELSE LET start == Max(cur - 2, 0)
             end == Min(cur + 3, Len(its))
         IN {loadImage(its[i + 1].id, coverWidth(w), coverHeight(h)) :
                 i \in {j \in start .. (end - 1) : ~cc[its[j + 1].id].has}}
            \cup (IF cur < Len(its) /\ its[cur + 1].id \notin dc
                  THEN {loadDetail(its[cur + 1].id)} ELSE {})

----------------------------------------------------------------------------
(* Fan-out mutation *)

SetFav_toggle(item, v) == [item EXCEPT !.fav = ~@]

SetFav(item, v) == [item EXCEPT !.fav = v]
SetPos(item, p) == [item EXCEPT !.pos = p]

\* the updater closures of Update: kind "fav" sets IsFavorite,
\* kind "pos" sets PlaybackPositionTicks
Updater(kind, item, v) ==
    IF kind = "fav" THEN SetFav(item, v) ELSE SetPos(item, v)

SyncList(list, itemID, kind, v) ==
    [k \in 1 .. Len(list) |->
        IF list[k].id = itemID THEN Updater(kind, list[k], v) ELSE list[k]]

NavSnapshot_cursorLost ==
    [Section |-> section, Items |-> items, Cursor |-> 0, Title |-> status]

\* pushNav: the snapshot appended to the navigation stack
NavSnapshot == [Section |-> section, Items |-> items, Cursor |-> cursor,
                Title |-> status]

pushNav == Append(navStack, NavSnapshot)

currentParentID == currentLib

\* the view a handler finds: displayed items, cursor, page number and the
\* depth of the navigation stack
View == [items |-> items, cursor |-> cursor, page |-> page,
         depth |-> Len(navStack)]

NoView == [items |-> <<>>, cursor |-> 0, page |-> 0, depth |-> -1]

\* the event just handled (history): its kind, the section that was current
\* before it, the item it concerns, whether it succeeded, and the value a
\* completion carried; prior is the view found by the handler that issued a
\* list request, kept while that request is being answered; net names the
\* remote calls the handler made itself, before it returned
EvV(e, id, hit, flag, n) ==
    [ev |-> e, sec |-> section, id |-> id, hit |-> hit, flag |-> flag, n |-> n,
     prior |-> NoView, net |-> {}]
Ev(e, id, hit) == EvV(e, id, hit, FALSE, 0)

----------------------------------------------------------------------------
(* Initial state: New() and Init() with a stored server profile *)

\* the stored server profiles, by the prefix of their names: the first and
\* the third share a prefix
Profiles == <<"home", "remote", "home">>
ProfileIds == 0 .. Len(Profiles) - 1

\* a text is the sequence of its words; the empty text has none
NoText == <<>>

\* storage.Server (the token and the user id are carried along and never
\* read by the operations modelled)
Server(name, url) == [Name |-> name, URL |-> url, Username |-> NoText,
                     Password |-> NoText]

\* Server.Prefix: the name up to its first space, the whole name without one
ServerPrefix(server) ==
    IF Len(server.Name) = 0 THEN "" ELSE server.Name[1]

ServersAtStart ==
    [i \in 1 .. Len(Profiles) |-> Server(<<Profiles[i], "nas">>, <<"url">>)]

\* the data files are named after the prefix
PrefixNames == {"home", "remote"}

\* ServerData.MediaDetails: for every item either no entry or an entry; an
\* entry is identified (history) by the prefix of the profile that was
\* active when it was written
NoData == [i \in Ids |-> "none"]

\* no file data_<prefix>.json has been written
NoFiles == [p \in PrefixNames |-> [exists |-> FALSE, data |-> NoData]]

\* storage.Store: config.Servers, config.ActiveServer, dataPath (the prefix
\* in the file name, "" for none), data, and the data files on disk
StoreAtStart == [Servers |-> ServersAtStart, ActiveServer |-> 0,
                 dataPath |-> "home", data |-> NoData, files |-> NoFiles]

validServerIndex(s, idx) == idx >= 0 /\ idx < Len(s.Servers)

\* GetActiveServer, as the prefix of the server returned ("" for nil)
ActivePrefix(s) ==
    IF Len(s.Servers) = 0 THEN ""
    ELSE IF validServerIndex(s, s.ActiveServer)
         THEN ServerPrefix(s.Servers[s.ActiveServer + 1])
         ELSE ServerPrefix(s.Servers[1])

\* json.Unmarshal(data, &s.data) into the maps s.data already holds: the
\* entries of the file are stored into the existing map, whose other
\* entries stay
Unmarshal(held, file) ==
    [i \in Ids |-> IF file[i] # "none" THEN file[i] ELSE held[i]]

loadDataForActiveServer(s) ==
    IF Len(s.Servers) = 0
    THEN [s EXCEPT !.dataPath = "", !.data = NoData]
    ELSE LET prefix == ActivePrefix(s)
         IN IF ~s.files[prefix].exists
            THEN [s EXCEPT !.dataPath = prefix, !.data = NoData]
            ELSE [s EXCEPT !.dataPath = prefix,
                           !.data = Unmarshal(s.data, s.files[prefix].data)]

saveData(s) ==
    IF s.dataPath = "" THEN s
    ELSE [s EXCEPT !.files[s.dataPath] = [exists |-> TRUE, data |-> s.data]]

\* SetMediaDetail and the store's UpdatePlaybackPosition: the entry of the
\* item is written into s.data and the data saved
SetMediaDetail(s, itemID) ==
    saveData([s EXCEPT !.data[itemID] = ActivePrefix(s)])

AddServer(s, server) == [s EXCEPT !.Servers = Append(@, server)]

UpdateServer(s, idx, server) ==
    IF ~validServerIndex(s, idx) THEN s
    ELSE [s EXCEPT !.Servers[idx + 1] = server]

DeleteServer(s, idx) ==
    IF ~validServerIndex(s, idx) THEN s
    ELSE LET rest == [k \in 1 .. Len(s.Servers) - 1 |->
                         IF k <= idx THEN s.Servers[k] ELSE s.Servers[k + 1]]
         IN loadDataForActiveServer(
              [s EXCEPT !.Servers = rest,
                        !.ActiveServer = Max(0, Min(@, Len(rest) - 1))])

SetActiveServer(s, idx) ==
    IF ~validServerIndex(s, idx) THEN s
    ELSE loadDataForActiveServer([s EXCEPT !.ActiveServer = idx])

\* the prefix of the stored profile with index i
Prefix(i) == ServerPrefix(store.Servers[i + 1])

\* an empty map[int]time.Duration
NoLatencies == [i \in ProfileIds |-> "none"]

\* initServerInputs: name, URL, user name, password
NoInputs == <<NoText, NoText, NoText, NoText>>

\* the server-management fields of Model
\* detailFrom (history): the prefixes of the servers the entries of
\* detailCache were fetched from
SrvAtStart == [serverCursor |-> 0, prevServerPrefix |-> "",
            pingInProgress |-> FALSE, serverLatencies |-> NoLatencies,
            detailFrom |-> {}, editingServer |-> -1,
            serverInputs |-> NoInputs, serverFocused |-> 0]

\* no probe batch is running
NoBatch == [phase |-> "idle", targets |-> {}, latencies |-> NoLatencies,
            order |-> <<>>]

\* the items of the Resume list
Resumable == {3, 4}

\* a store without server profiles: storage.New on a missing servers.json
NoServers == loadDataForActiveServer([StoreAtStart EXCEPT !.Servers = <<>>])

initialState_loading(s) == "Loading"

\* New: the initial state
initialState(s) == IF Len(s.Servers) = 0 THEN "ServerManage" ELSE "Loading"

\* Init: the commands issued at start (the list command of tea.Batch)
InitCmds(st) ==
    IF st = "ServerManage" THEN EmptyBag
    ELSE SetToBag({FetchCmd("resume", 0, "Resume")})

\* the state after New and Init, on a store among stores and a catalog whose
\* favorites are one of favChoices and whose Resume items have server-side
\* positions among ticks, with a data file holding local positions among
\* secs for them
InitOn(stores, favChoices, ticks, secs) ==
    /\ store \in stores
    /\ state = initialState(store)
    /\ section = "Resume"
    /\ items = <<>>
    /\ totalItems = 0
    /\ page = 0
    /\ cursor = 0
    /\ navStack = <<>>
    /\ currentLib = 0
    /\ status = St("Connecting...", 0)
    /\ searchInput = ""
    /\ width = 0
    /\ height = 0
    /\ coverCache = [i \in Ids |-> NoCover]
    /\ detailCache = {}
    /\ sectionCache = [s \in Sections |-> NoList]
    /\ sectionCursor = [s \in Sections |-> 0]
    /\ lastPlayPosition = 0
    /\ lastReportOK = FALSE
    /\ \E sp \in [Resumable -> secs] :
         storePos = [i \in Ids |-> IF i \in Resumable THEN sp[i] ELSE 0]
    /\ tasks = InitCmds(state)
    /\ imgReq = {}
    /\ \E favs \in favChoices : srvFav = [i \in Ids |-> i \in favs]
    /\ \E tk \in [Resumable -> ticks] :
         srvPos = [i \in Ids |-> IF i \in Resumable THEN tk[i] ELSE 0]
    /\ imageCache = [i \in Ids |-> NoCover]
    /\ last = [ev |-> "init", sec |-> "Resume", id |-> 0, hit |-> FALSE,
               flag |-> FALSE, n |-> 0, prior |-> NoView, net |-> {}]
    /\ favSet = [i \in Ids |-> "none"]
    /\ srv = SrvAtStart
    /\ probe = NoBatch

\* the session of a store that holds the server profiles
InitWith(favChoices, ticks, secs) ==
    InitOn({StoreAtStart}, favChoices, ticks, secs)

\* a fresh data file and a catalog without playback positions
InitModel(favChoices) == InitWith(favChoices, {0}, {0})

\* no function call is being evaluated
Idle == [fn |-> "idle"]

\* no PlayMultiple call is running
NoCall == [phase |-> "idle", found |-> FALSE, urls |-> 0, start |-> 0,
           whole |-> <<>>, rest |-> <<>>, spawned |-> FALSE, ran |-> FALSE,
           lastPos |-> 0, err |-> FALSE, pos |-> 0]

\* the session receives at most MaxKeys key presses and MaxResizes resizes
Init ==
    /\ InitModel(InitFavorites)
    /\ keys = MaxKeys /\ resizes = MaxResizes /\ mpv = NoCall /\ call = Idle

\* a session with few key presses on a catalog without favorites, for the
\* cover-image commands
InitImg ==
    /\ InitModel({{}})
    /\ keys = MaxImgKeys /\ resizes = MaxResizes /\ mpv = NoCall /\ call = Idle

----------------------------------------------------------------------------
(* Key handlers of handleKey (states Loading and Browsing) *)

\* one more key press is handled: keys and resizes count the key presses and
\* resize events the session still receives
AnyKey == keys > 0 /\ keys' = keys - 1 /\ UNCHANGED <<resizes, mpv, call>>

\* a key of the browsing and search handlers: the server profiles, the probe
\* batch and the server-management fields stay as they are
KeyPress == AnyKey /\ UNCHANGED <<srv, probe, store>>

BrowseKeys == state \in {"Loading", "Browsing"} /\ KeyPress

Room(n) == BagCardinality(tasks) + n <= MaxTasks

\* the commands in flight form a bag: two equal requests are two commands
Issue(bag, t) == bag (+) SetToBag({t})
Drop(bag, t) == bag (-) SetToBag({t})

\* the image/detail requests a handler returns from loadVisibleImages,
\* computed on the state the handler leaves
Visible(its, cur) == imgReq' = imgReq \cup
    loadVisibleImages(its, cur, coverCache, detailCache, width, height)

KeyLeft ==
    /\ BrowseKeys
    /\ last' = [Ev("left", 0, FALSE) EXCEPT !.prior =
                    IF cursor = 0 /\ page > 0 THEN View ELSE NoView]
    /\ IF cursor > 0
       THEN /\ cursor' = cursor - 1
            /\ UNCHANGED <<page, state, tasks>>
            /\ Visible(items, cursor - 1)
       ELSE IF page > 0
       THEN /\ Room(1)
            /\ page' = page - 1
            /\ state' = "Loading"
            /\ tasks' = Issue(tasks, FetchCmd("items", currentParentID, section))
            /\ UNCHANGED <<cursor, imgReq>>
       ELSE UNCHANGED <<cursor, page, state, tasks, imgReq>>
    /\ UNCHANGED <<section, items, totalItems, navStack, currentLib, status,
                   searchInput, width, height, coverCache, detailCache,
                   sectionCache, sectionCursor, lastPlayPosition, lastReportOK,
                   storePos, srvFav, srvPos, imageCache, favSet>>

KeyRight ==
    /\ BrowseKeys
    /\ last' = [Ev("right", 0, FALSE) EXCEPT !.prior =
                    IF cursor >= Len(items) - 1 /\ (page + 1) * pageSize < totalItems
                    THEN View ELSE NoView]
    /\ IF cursor < Len(items) - 1
       THEN /\ cursor' = cursor + 1
            /\ UNCHANGED <<page, state, tasks>>
            /\ Visible(items, cursor + 1)
       ELSE IF (page + 1) * pageSize < totalItems
       THEN /\ Room(1)
            /\ page' = page + 1
            /\ state' = "Loading"
            /\ tasks' = Issue(tasks, FetchCmd("items", currentParentID, section))
            /\ UNCHANGED <<cursor, imgReq>>
       ELSE UNCHANGED <<cursor, page, state, tasks, imgReq>>
    /\ UNCHANGED <<section, items, totalItems, navStack, currentLib, status,
                   searchInput, width, height, coverCache, detailCache,
                   sectionCache, sectionCursor, lastPlayPosition, lastReportOK,
                   storePos, srvFav, srvPos, imageCache, favSet>>

\* selectItem on Series / Season: pushNav, Loading, child list request
SelectDrill ==
    /\ BrowseKeys
    /\ Len(items) > 0 /\ cursor < Len(items)
    /\ ItemType(items[cursor + 1].id) \in {"Series", "Season"}
    /\ Len(navStack) < MaxNav
    /\ Room(1)
    /\ last' = [Ev("drill", items[cursor + 1].id, FALSE) EXCEPT !.prior = View]
    /\ navStack' = pushNav
    /\ state' = "Loading"
    /\ tasks' = Issue(tasks,
         IF ItemType(items[cursor + 1].id) = "Series"
          THEN FetchCmd("seasons", items[cursor + 1].id, section)
          ELSE FetchCmd("episodes", items[cursor + 1].id, section))
    /\ UNCHANGED <<section, items, totalItems, page, cursor, currentLib, status,
                   searchInput, width, height, coverCache, detailCache,
                   sectionCache, sectionCursor, lastPlayPosition, lastReportOK,
                   storePos, imgReq, srvFav, srvPos, imageCache, favSet>>

\* selectItem on CollectionFolder / Folder / BoxSet: pushNav, the folder
\* becomes currentLib, page 0, Loading, request of its first page
SelectFolder ==
    /\ BrowseKeys
    /\ Len(items) > 0 /\ cursor < Len(items)
    /\ ItemType(items[cursor + 1].id) = "Folder"
    /\ Len(navStack) < MaxNav
    /\ Room(1)
    /\ last' = [Ev("folder", items[cursor + 1].id, FALSE) EXCEPT !.prior = View]
    /\ navStack' = pushNav
    /\ currentLib' = items[cursor + 1].id
    /\ page' = 0
    /\ state' = "Loading"
    /\ tasks' = Issue(tasks, FetchCmd("items", items[cursor + 1].id, section))
    /\ UNCHANGED <<section, items, totalItems, cursor, status,
                   searchInput, width, height, coverCache, detailCache,
                   sectionCache, sectionCursor, lastPlayPosition, lastReportOK,
                   storePos, imgReq, srvFav, srvPos, imageCache, favSet>>

\* keys s and S: jump to the owning season / series of the item under the cursor
KeySeason ==
    /\ BrowseKeys
    /\ Len(items) > 0 /\ cursor < Len(items)
    /\ \E k \in {"s", "S"} :
         /\ ItemType(items[cursor + 1].id) \in
                (IF k = "s" THEN {"Episode"} ELSE {"Episode", "Season"})
         /\ last' = Ev(k, items[cursor + 1].id, FALSE)
         /\ tasks' = Issue(tasks,
              IF k = "s"
               THEN FetchCmd("episodes", SeasonIDOf(items[cursor + 1].id), section)
               ELSE FetchCmd("seasons", SeriesIDOf(items[cursor + 1].id), section))
    /\ Len(navStack) < MaxNav
    /\ Room(1)
    /\ navStack' = pushNav
    /\ state' = "Loading"
    /\ UNCHANGED <<section, items, totalItems, page, cursor, currentLib, status,
                   searchInput, width, height, coverCache, detailCache,
                   sectionCache, sectionCursor, lastPlayPosition, lastReportOK,
                   storePos, imgReq, srvFav, srvPos, imageCache, favSet>>

\* goBack
goBack ==
    /\ BrowseKeys
    /\ last' = Ev("back", 0, Len(navStack) > 0)
    /\ IF Len(navStack) = 0
       THEN UNCHANGED <<navStack, section, items, cursor, totalItems, status,
                        imgReq>>
       ELSE LET prev == navStack[Len(navStack)]
            IN /\ navStack' = SubSeq(navStack, 1, Len(navStack) - 1)
               /\ section' = prev.Section
               /\ items' = prev.Items
               /\ cursor' = prev.Cursor
               /\ totalItems' = Len(prev.Items)
               /\ status' = prev.Title
               /\ Visible(prev.Items, prev.Cursor)
    /\ UNCHANGED <<state, page, currentLib, searchInput, width, height,
                   coverCache, detailCache, sectionCache, sectionCursor,
                   lastPlayPosition, lastReportOK, storePos, tasks, srvFav,
                   srvPos, imageCache, favSet>>

LoaderOf(target) == IF target = "Resume" THEN "resume" ELSE "favorites"

\* the cache test of switchSection: an entry that holds at least one item
CacheHit_anyEntry(sc, target) == sc[target].has

CacheHit(sc, target) == sc[target].has /\ Len(sc[target].list) > 0

\* switchSection (keys 1 and 2)
switchSection(target) ==
    /\ BrowseKeys
    /\ last' = [Ev("switch", 0, sectionCache[target].has) EXCEPT !.prior =
                    IF CacheHit(sectionCache, target) THEN NoView ELSE View]
    /\ sectionCursor' = [sectionCursor EXCEPT ![section] = cursor]
    /\ section' = target
    /\ page' = 0
    /\ navStack' = <<>>
    /\ currentLib' = 0
    /\ IF CacheHit(sectionCache, target)
       THEN /\ items' = sectionCache[target].list
            /\ totalItems' = Len(sectionCache[target].list)
            /\ cursor' = sectionCursor'[target]
            /\ state' = "Browsing"
            /\ status' = St("items", Len(sectionCache[target].list))
            /\ UNCHANGED tasks
            /\ Visible(sectionCache[target].list, sectionCursor'[target])
       ELSE /\ Room(1)
            /\ state' = "Loading"
            /\ tasks' = Issue(tasks, FetchCmd(LoaderOf(target), 0, target))
            /\ UNCHANGED <<items, totalItems, cursor, status, imgReq>>
    /\ UNCHANGED <<searchInput, width, height, coverCache, detailCache,
                   sectionCache, lastPlayPosition, lastReportOK, storePos,
                   srvFav, srvPos, imageCache, favSet>>

KeySection == \E target \in {"Resume", "Favorites"} : switchSection(target)

EvictSection_all(sc, sec) == [s \in Sections |-> NoList]

\* delete(m.sectionCache, m.section)
EvictSection(sc, sec) == [sc EXCEPT ![sec] = NoList]

\* refreshCurrentView, run on top of the commands and cache a handler holds
refreshCurrentView(baseTasks, baseCache) ==
    /\ sectionCache' = EvictSection(baseCache, section)
    /\ IF section = "Search" /\ searchInput = ""
       THEN /\ state' = "Searching"
            /\ tasks' = baseTasks
       ELSE /\ BagCardinality(baseTasks) < MaxTasks
            /\ state' = "Loading"
            /\ tasks' = Issue(baseTasks,
                 FetchCmd(IF section = "Search" THEN "search" ELSE LoaderOf(section),
                          0, section))

KeyRefresh ==
    /\ BrowseKeys
    /\ last' = [Ev("refresh", 0, sectionCache[section].has) EXCEPT !.prior =
                    IF section = "Search" /\ searchInput = "" THEN NoView
                    ELSE View]
    /\ refreshCurrentView(tasks, sectionCache)
    /\ UNCHANGED <<section, items, totalItems, page, cursor, navStack,
                   currentLib, status, searchInput, width, height, coverCache,
                   detailCache, sectionCursor, lastPlayPosition, lastReportOK,
                   storePos, imgReq, srvFav, srvPos, imageCache, favSet>>

\* key f
KeyFavorite ==
    /\ BrowseKeys
    /\ Len(items) > 0 /\ cursor < Len(items)
    /\ Room(1)
    /\ last' = Ev("f", items[cursor + 1].id, FALSE)
    /\ tasks' = Issue(tasks, toggleFavorite(items[cursor + 1]))
    /\ UNCHANGED <<mvars, storePos, imgReq, srvFav, srvPos, imageCache, favSet>>

\* keys 3 and /
KeySearch ==
    /\ BrowseKeys
    /\ last' = Ev("slash", 0, FALSE)
    /\ state' = "Searching"
    /\ UNCHANGED <<section, items, totalItems, page, cursor, navStack,
                   currentLib, status, searchInput, width, height, coverCache,
                   detailCache, sectionCache, sectionCursor, lastPlayPosition,
                   lastReportOK, storePos, tasks, imgReq, srvFav, srvPos,
                   imageCache, favSet>>

Queries == {"", "q"}

\* handleSearchKey: typing, esc, enter
SearchType ==
    /\ state = "Searching" /\ KeyPress
    /\ \E q \in Queries : searchInput' = q /\ q # searchInput
    /\ last' = Ev("type", 0, FALSE)
    /\ UNCHANGED <<state, section, items, totalItems, page, cursor, navStack,
                   currentLib, status, width, height, coverCache, detailCache,
                   sectionCache, sectionCursor, lastPlayPosition, lastReportOK,
                   storePos, tasks, imgReq, srvFav, srvPos, imageCache, favSet>>

SearchEsc ==
    /\ state = "Searching" /\ KeyPress
    /\ state' = "Browsing"
    /\ last' = Ev("searchEsc", 0, FALSE)
    /\ UNCHANGED <<section, items, totalItems, page, cursor, navStack,
                   currentLib, status, searchInput, width, height, coverCache,
                   detailCache, sectionCache, sectionCursor, lastPlayPosition,
                   lastReportOK, storePos, tasks, imgReq, srvFav, srvPos,
                   imageCache, favSet>>

SearchEnter ==
    /\ state = "Searching" /\ KeyPress
    /\ last' = Ev("searchEnter", 0, searchInput # "")
    /\ IF searchInput # ""
       THEN /\ Room(1)
            /\ state' = "Loading"
            /\ section' = "Search"
            /\ tasks' = Issue(tasks, FetchCmd("search", 0, "Search"))
       ELSE UNCHANGED <<state, section, tasks>>
    /\ UNCHANGED <<items, totalItems, page, cursor, navStack, currentLib,
                   status, searchInput, width, height, coverCache, detailCache,
                   sectionCache, sectionCursor, lastPlayPosition, lastReportOK,
                   storePos, imgReq, srvFav, srvPos, imageCache, favSet>>

\* the start position playItem hands to the player: the server-side position
\* in seconds, or the locally stored one when that is zero
StartPosSec(id) ==
    LET fromServer == IF srvPos[id] > 0 THEN srvPos[id] \div TicksPerSecond ELSE 0
    IN IF fromServer = 0 THEN storePos[id] ELSE fromServer

\* selectItem on Movie / Episode / Video: playItem
SelectPlay ==
    /\ BrowseKeys
    /\ Len(items) > 0 /\ cursor < Len(items)
    /\ ItemType(items[cursor + 1].id) \in {"Movie", "Episode", "Video"}
    /\ \E getItemOK \in BOOLEAN :
         /\ last' = [Ev("play", items[cursor + 1].id, getItemOK) EXCEPT
                         !.n = IF getItemOK
                               THEN StartPosSec(items[cursor + 1].id) ELSE 0,
                         !.net = IF getItemOK
                                 THEN {"GetItem", "ReportPlaybackStart"}
                                 ELSE {"GetItem"}]
         /\ IF getItemOK
            THEN /\ Room(1)
                 /\ status' = St("Playing", items[cursor + 1].id)
                 /\ tasks' = Issue(tasks,
                      PlayCmd(items[cursor + 1].id, StartPosSec(items[cursor + 1].id)))
            ELSE /\ status' = St("Cannot play: no media source", 0)
                 /\ UNCHANGED tasks
    /\ UNCHANGED <<state, section, items, totalItems, page, cursor, navStack,
                   currentLib, searchInput, width, height, coverCache,
                   detailCache, sectionCache, sectionCursor, lastPlayPosition,
                   lastReportOK, storePos, imgReq, srvFav, srvPos, imageCache,
                   favSet>>

----------------------------------------------------------------------------
(* The commands run: the catalog answers a request *)

Answer(t, new) == tasks' = Issue(Drop(tasks, t), new)

\* a list request is answered from the catalog state, or fails
ServeFetch ==
    \E t \in BagToSet(tasks) : \E fails \in BOOLEAN :
        /\ t.kind = "fetch" /\ t.phase = "req"
        /\ Answer(t, IF fails
                     THEN [t EXCEPT !.phase = "resp", !.err = TRUE]
                     ELSE [t EXCEPT !.phase = "resp",
                                    !.list = ServerList(t.what, t.arg),
                                    !.total = ServerTotal(t.what, t.arg)])
        /\ last' = [Ev("serveFetch", 0, ~fails) EXCEPT !.prior = last.prior]
        /\ UNCHANGED <<keys, resizes, mpv, srv, probe, store, call>>
        /\ UNCHANGED <<mvars, storePos, imgReq, srvFav, srvPos, imageCache, favSet>>

\* AddFavorite / RemoveFavorite reaches the catalog, or fails
ServeFav ==
    \E t \in BagToSet(tasks) : \E fails \in BOOLEAN :
        /\ t.kind = "fav" /\ t.phase = "req"
        /\ Answer(t, [t EXCEPT !.phase = "resp", !.err = fails])
        /\ srvFav' = IF fails THEN srvFav ELSE [srvFav EXCEPT ![t.id] = t.flag]
        /\ last' = Ev("serveFav", t.id, ~fails)
        /\ UNCHANGED <<keys, resizes, mpv, srv, probe, store, call>>
        /\ UNCHANGED <<mvars, storePos, imgReq, srvPos, imageCache, favSet>>

\* the playback command of playItem: the player runs and returns a position
\* (the start position when it saw no status line), the position is stored
\* locally and reported to the catalog
PlayerResults(startPosSec) == {startPosSec} \cup (1 .. MaxPos)

\* player.Play: the positions a call can return.  A call that cannot launch
\* the player (no binary, or the start of the process fails) returns a
\* PlayResult with Err set and PositionSec zero
Play(launched, startPosSec) ==
    IF launched THEN PlayerResults(startPosSec) ELSE {0}

\* store.UpdatePlaybackPosition: the position saved for the item
UpdatePlaybackPosition_skipped(sp, itemID, positionSec) == sp

UpdatePlaybackPosition(sp, itemID, positionSec) ==
    [sp EXCEPT ![itemID] = positionSec]

\* the command ignores result.Err; err on the task (history) records that the
\* player was not launched
ServePlay ==
    \E t \in BagToSet(tasks) : \E reportOK, launched \in BOOLEAN :
      \E r \in Play(launched, t.pos) :
        /\ t.kind = "play" /\ t.phase = "req"
        /\ Answer(t, [t EXCEPT !.phase = "resp", !.pos = r, !.ok = reportOK,
                               !.err = ~launched])
        /\ storePos' = UpdatePlaybackPosition(storePos, t.id, r)
        /\ srvPos' = IF reportOK
                     THEN [srvPos EXCEPT ![t.id] = r * TicksPerSecond]
                     ELSE srvPos
        /\ last' = EvV("servePlay", t.id, reportOK, ~launched, 0)
        /\ store' = SetMediaDetail(store, t.id)
        /\ UNCHANGED <<keys, resizes, mpv, srv, probe, call>>
        /\ UNCHANGED <<mvars, imgReq, srvFav, imageCache, favSet>>

----------------------------------------------------------------------------
(* Completion events handled by Update *)

SeedSection_issuing(t) == t.sec

\* the section whose cache entry case itemsMsg writes: m.section
SeedSection(t) == section

\* case itemsMsg
DeliverItems ==
    \E t \in BagToSet(tasks) :
        /\ t.kind = "fetch" /\ t.phase = "resp"
        /\ tasks' = Drop(tasks, t)
        /\ last' = [ev |-> "items", sec |-> t.sec, id |-> 0, hit |-> ~t.err,
                    flag |-> FALSE, n |-> 0, prior |-> NoView, net |-> {}]
        /\ UNCHANGED <<keys, resizes, mpv, srv, probe, store, call>>
        /\ IF t.err
           THEN /\ status' = St("Error", 0)
                /\ UNCHANGED <<items, totalItems, cursor, state, sectionCache,
                               sectionCursor>>
           ELSE /\ items' = t.list
                /\ totalItems' = t.total
                /\ cursor' = 0
                /\ state' = "Browsing"
                /\ status' = St("items", t.total)
                /\ sectionCache' = [sectionCache EXCEPT
                       ![SeedSection(t)] = [has |-> TRUE, list |-> t.list]]
                /\ sectionCursor' = [sectionCursor EXCEPT ![SeedSection(t)] = 0]
        /\ IF t.err THEN Visible(items, cursor) ELSE Visible(t.list, 0)
        /\ UNCHANGED <<section, page, navStack, currentLib, searchInput, width,
                       height, coverCache, detailCache, lastPlayPosition,
                       lastReportOK, storePos, srvFav, srvPos, imageCache, favSet>>

\* syncItemState: the three walks (m.items, sectionCache, navStack)
syncItems(list, itemID, kind, v) == SyncList(list, itemID, kind, v)

syncSectionCache(sc, itemID, kind, v) ==
    [s \in Sections |-> [sc[s] EXCEPT !.list = SyncList(@, itemID, kind, v)]]

syncNavStack_skip(ns, itemID, kind, v) == ns

syncNavStack(ns, itemID, kind, v) ==
    [k \in 1 .. Len(ns) |->
        [ns[k] EXCEPT !.Items = SyncList(@, itemID, kind, v)]]

\* case playDoneMsg
DeliverPlayDone ==
    \E t \in BagToSet(tasks) :
        /\ t.kind = "play" /\ t.phase = "resp"
        /\ tasks' = Drop(tasks, t)
        /\ last' = EvV("playDone", t.id, t.ok, t.err, t.pos)
        /\ UNCHANGED <<keys, resizes, mpv, srv, probe, store, call>>
        /\ lastPlayPosition' = t.pos
        /\ lastReportOK' = t.ok
        /\ status' = St("Playback finished", 0)
        /\ items' = syncItems(items, t.id, "pos", t.pos * TicksPerSecond)
        /\ sectionCache' =
             syncSectionCache(sectionCache, t.id, "pos", t.pos * TicksPerSecond)
        /\ navStack' = syncNavStack(navStack, t.id, "pos", t.pos * TicksPerSecond)
        /\ UNCHANGED <<state, section, totalItems, page, cursor, currentLib,
                       searchInput, width, height, coverCache, detailCache,
                       sectionCursor, storePos, imgReq, srvFav, srvPos,
                       imageCache, favSet>>

\* the error test of case favoriteMsg
FavFailed_never(msg) == FALSE

FavFailed(msg) == msg.err

\* case favoriteMsg
DeliverFav ==
    \E t \in BagToSet(tasks) :
        /\ t.kind = "fav" /\ t.phase = "resp"
        /\ last' = EvV("favDone", t.id, ~t.err, t.flag, 0)
        /\ UNCHANGED <<keys, resizes, mpv, srv, probe, store, call>>
        /\ IF FavFailed(t)
           THEN /\ status' = St("Favorite error", 0)
                /\ tasks' = Drop(tasks, t)
                /\ UNCHANGED <<items, sectionCache, navStack, state, favSet>>
           ELSE /\ items' = syncItems(items, t.id, "fav", t.flag)
                /\ navStack' = syncNavStack(navStack, t.id, "fav", t.flag)
                /\ favSet' = [favSet EXCEPT ![t.id] = IF t.flag THEN "T" ELSE "F"]
                /\ status' = IF t.flag THEN St("Added to favorites", 0)
                             ELSE St("Removed from favorites", 0)
                /\ IF section = "Favorites" /\ ~t.flag
                   THEN refreshCurrentView(Drop(tasks, t),
                            syncSectionCache(sectionCache, t.id, "fav", t.flag))
                   ELSE /\ tasks' = Drop(tasks, t)
                        /\ sectionCache' =
                             syncSectionCache(sectionCache, t.id, "fav", t.flag)
                        /\ UNCHANGED state
        /\ UNCHANGED <<section, totalItems, page, cursor, currentLib,
                       searchInput, width, height, coverCache, detailCache,
                       sectionCursor, lastPlayPosition, lastReportOK, storePos,
                       imgReq, srvFav, srvPos, imageCache>>

----------------------------------------------------------------------------
(* Cover images *)

Sizes == {<<80, 24>>, <<100, 30>>}

\* a glyph string, identified by the dimensions it was rendered for
Glyph(w, h, ph) == [has |-> TRUE, w |-> w, h |-> h, ph |-> ph]

\* RenderImage(url, width, height): the string returned and the URL-keyed
\* cache it leaves; a failed download gives a placeholder and caches nothing
RenderImage(cache, url, w, h, fetched) ==
    IF ~fetched THEN [image |-> Glyph(w, h, TRUE), cache |-> cache]
    ELSE IF cache[url].has THEN [image |-> cache[url], cache |-> cache]
    ELSE [image |-> Glyph(w, h, FALSE),
          cache |-> [cache EXCEPT ![url] = Glyph(w, h, FALSE)]]

\* the command of loadImage runs RenderImage
ServeImage ==
    \E r \in imgReq : \E fetched \in BOOLEAN :
        /\ r.kind = "image" /\ r.phase = "req"
        /\ LET res == RenderImage(imageCache, r.id, r.w, r.h, fetched)
           IN /\ imageCache' = res.cache
              /\ imgReq' = (imgReq \ {r}) \cup
                   {[r EXCEPT !.phase = "resp", !.rw = res.image.w,
                              !.rh = res.image.h, !.ph = res.image.ph]}
        /\ last' = Ev("serveImage", r.id, fetched)
        /\ UNCHANGED <<keys, resizes, mpv, srv, probe, store, call>>
        /\ UNCHANGED <<mvars, storePos, tasks, srvFav, srvPos, favSet>>

\* case imageMsg
DeliverImage ==
    \E r \in imgReq :
        /\ r.kind = "image" /\ r.phase = "resp"
        /\ imgReq' = imgReq \ {r}
        /\ coverCache' = [coverCache EXCEPT ![r.id] = Glyph(r.rw, r.rh, r.ph)]
        /\ last' = Ev("image", r.id, FALSE)
        /\ UNCHANGED <<keys, resizes, mpv, srv, probe, store, call>>
        /\ UNCHANGED <<state, section, items, totalItems, page, cursor,
                       navStack, currentLib, status, searchInput, width, height,
                       detailCache, sectionCache, sectionCursor,
                       lastPlayPosition, lastReportOK, storePos, tasks, srvFav,
                       srvPos, imageCache, favSet>>

\* the command of loadDetail and case detailMsg: the detail the store holds
\* for the item is returned, else the item is fetched and the detail built
\* from it is written to the store; a nil detail is dropped
DeliverDetail ==
    \E r \in imgReq : \E found \in BOOLEAN :
        /\ r.kind = "detail"
        /\ store.data[r.id] # "none" => found
        /\ imgReq' = imgReq \ {r}
        /\ detailCache' = IF found THEN detailCache \cup {r.id} ELSE detailCache
        /\ last' = Ev("detail", r.id, found)
        /\ store' = IF found /\ store.data[r.id] = "none"
                    THEN SetMediaDetail(store, r.id) ELSE store
        /\ srv' = [srv EXCEPT !.detailFrom =
                      IF found THEN @ \cup {store'.data[r.id]} ELSE @]
        /\ UNCHANGED <<keys, resizes, mpv, probe, call>>
        /\ UNCHANGED <<state, section, items, totalItems, page, cursor,
                       navStack, currentLib, status, searchInput, width, height,
                       coverCache, sectionCache, sectionCursor,
                       lastPlayPosition, lastReportOK, storePos, tasks, srvFav,
                       srvPos, imageCache, favSet>>

\* case tea.WindowSizeMsg
Resize ==
    \E sz \in Sizes :
        /\ width' = sz[1]
        /\ height' = sz[2]
        /\ coverCache' = [i \in Ids |-> NoCover]
        /\ last' = Ev("resize", 0, FALSE)
        /\ resizes > 0
        /\ resizes' = resizes - 1
        /\ UNCHANGED <<keys, mpv, srv, probe, store, call>>
        /\ UNCHANGED <<state, section, items, totalItems, page, cursor,
                       navStack, currentLib, status, searchInput, detailCache,
                       sectionCache, sectionCursor, lastPlayPosition,
                       lastReportOK, storePos, tasks, srvFav, srvPos,
                       imageCache, favSet>>
        /\ imgReq' = imgReq \cup
             loadVisibleImages(items, cursor, coverCache', detailCache,
                               sz[1], sz[2])

----------------------------------------------------------------------------
(* Server management: key m, handleServerManageKey, connectServer *)

ManageKeys == state = "ServerManage" /\ AnyKey

ServerFrame == UNCHANGED <<section, items, totalItems, page, cursor, navStack,
                           currentLib, searchInput, width, height, coverCache,
                           detailCache, sectionCache, sectionCursor,
                           lastPlayPosition, lastReportOK, storePos, imgReq,
                           srvFav, srvPos, imageCache, favSet>>

\* key m
KeyManage ==
    /\ state \in {"Loading", "Browsing"} /\ AnyKey
    /\ state' = "ServerManage"
    /\ srv' = [srv EXCEPT !.serverCursor = store.ActiveServer]
    /\ last' = Ev("m", 0, FALSE)
    /\ UNCHANGED <<status, tasks, probe, store>>
    /\ ServerFrame

\* keys q and esc
ManageEsc ==
    /\ ManageKeys
    /\ state' = "Browsing"
    /\ last' = Ev("manageEsc", 0, FALSE)
    /\ UNCHANGED <<status, tasks, srv, probe, store>>
    /\ ServerFrame

\* keys up and down
ManageMove ==
    /\ ManageKeys
    /\ \E d \in {-1, 1} :
         srv' = [srv EXCEPT !.serverCursor =
                   IF d = -1 THEN (IF @ > 0 THEN @ - 1 ELSE @)
                   ELSE (IF @ < Len(store.Servers) - 1 THEN @ + 1 ELSE @)]
    /\ last' = Ev("manageMove", 0, FALSE)
    /\ UNCHANGED <<state, status, tasks, probe, store>>
    /\ ServerFrame

ConnectCmd == [BaseTask EXCEPT !.kind = "connect"]

\* key enter: the profile under the cursor becomes the active one at once,
\* the prefix of the profile that was active is kept for connectServer
ManageEnter ==
    /\ ManageKeys
    /\ IF Len(store.Servers) > 0 /\ srv.serverCursor < Len(store.Servers)
       THEN /\ Room(1)
            /\ srv' = [srv EXCEPT !.prevServerPrefix = ActivePrefix(store)]
            /\ store' = SetActiveServer(store, srv.serverCursor)
            /\ state' = "Loading"
            /\ status' = St("Switching server...", 0)
            /\ tasks' = Issue(tasks, [ConnectCmd EXCEPT !.arg = store.ActiveServer])
       ELSE UNCHANGED <<srv, store, state, status, tasks>>
    /\ last' = Ev("manageEnter", srv.serverCursor,
                  srv.serverCursor < Len(store.Servers))
    /\ UNCHANGED probe
    /\ ServerFrame

\* connectServer: samePrefix is computed from the fields as they are when
\* the command runs; a failed login carries no samePrefix
samePrefix(prev, active) == prev # "" /\ active = prev

ServeConnect ==
    \E t \in BagToSet(tasks) : \E fails \in BOOLEAN :
        /\ t.kind = "connect" /\ t.phase = "req"
        /\ Len(store.Servers) = 0 => fails
        /\ Answer(t, [t EXCEPT !.phase = "resp", !.err = fails,
                               !.flag = ~fails /\
                                  samePrefix(srv.prevServerPrefix, ActivePrefix(store))])
        /\ last' = Ev("serveConnect", 0, ~fails)
        /\ UNCHANGED <<keys, resizes, mpv, srv, probe, store, call>>
        /\ UNCHANGED <<mvars, storePos, imgReq, srvFav, srvPos, imageCache,
                       favSet>>

\* case connectServerMsg: a failure goes back to the server list; a success
\* runs resetForServerSwitch and issues loadResume.  The displayed items are
\* left as they are until the list arrives.
DeliverConnect ==
    \E t \in BagToSet(tasks) :
        /\ t.kind = "connect" /\ t.phase = "resp"
        /\ last' = EvV("connect", store.ActiveServer, ~t.err, t.flag, 0)
        /\ IF t.err
           THEN /\ status' = St("Connect failed", 0)
                /\ state' = "ServerManage"
                /\ tasks' = Drop(tasks, t)
                /\ UNCHANGED <<section, navStack, currentLib, page, cursor,
                               sectionCache, sectionCursor, coverCache,
                               detailCache, srv>>
           ELSE /\ status' = St("Connected", 0)
                /\ state' = "Loading"
                /\ section' = "Resume"
                /\ navStack' = <<>>
                /\ currentLib' = 0
                /\ page' = 0
                /\ cursor' = 0
                /\ sectionCache' = [s \in Sections |-> NoList]
                /\ sectionCursor' = [s \in Sections |-> 0]
                /\ coverCache' = [i \in Ids |-> NoCover]
                /\ detailCache' = IF t.flag THEN detailCache ELSE {}
                /\ srv' = IF t.flag THEN srv
                          ELSE [srv EXCEPT !.serverLatencies = NoLatencies,
                                           !.detailFrom = {}]
                /\ tasks' = Issue(Drop(tasks, t), FetchCmd("resume", 0, "Resume"))
        /\ UNCHANGED <<keys, resizes, mpv, probe, store, call>>
        /\ UNCHANGED <<items, totalItems, searchInput, width, height,
                       lastPlayPosition, lastReportOK, storePos, imgReq,
                       srvFav, srvPos, imageCache, favSet>>

----------------------------------------------------------------------------
(* The profile list and the edit form: keys a, e, d, handleServerEditKey *)

Words == {"home", "remote"}

\* key a
ManageAdd ==
    /\ ManageKeys
    /\ srv' = [srv EXCEPT !.editingServer = -1, !.serverInputs = NoInputs,
                          !.serverFocused = 0]
    /\ state' = "ServerEdit"
    /\ last' = Ev("a", 0, TRUE)
    /\ UNCHANGED <<status, tasks, probe, store>>
    /\ ServerFrame

\* key e
ManageEdit ==
    /\ ManageKeys
    /\ IF Len(store.Servers) > 0 /\ srv.serverCursor < Len(store.Servers)
       THEN LET server == store.Servers[srv.serverCursor + 1]
            IN /\ srv' = [srv EXCEPT
                            !.editingServer = srv.serverCursor,
                            !.serverInputs = <<server.Name, server.URL,
                                               server.Username, server.Password>>,
                            !.serverFocused = 0]
               /\ state' = "ServerEdit"
       ELSE UNCHANGED <<srv, state>>
    /\ last' = Ev("e", srv.serverCursor, srv.serverCursor < Len(store.Servers))
    /\ UNCHANGED <<status, tasks, probe, store>>
    /\ ServerFrame

\* keys d and delete
ManageDelete ==
    /\ ManageKeys
    /\ IF Len(store.Servers) > 0 /\ srv.serverCursor < Len(store.Servers)
       THEN /\ store' = DeleteServer(store, srv.serverCursor)
            /\ srv' = [srv EXCEPT !.serverCursor =
                         IF @ >= Len(store'.Servers) /\ @ > 0 THEN @ - 1 ELSE @]
       ELSE UNCHANGED <<srv, store>>
    /\ last' = Ev("d", srv.serverCursor, srv.serverCursor < Len(store.Servers))
    /\ UNCHANGED <<state, status, tasks, probe>>
    /\ ServerFrame

EditKeys == state = "ServerEdit" /\ AnyKey

\* key esc
EditEsc ==
    /\ EditKeys
    /\ state' = "ServerManage"
    /\ last' = Ev("editEsc", 0, FALSE)
    /\ UNCHANGED <<status, tasks, srv, probe, store>>
    /\ ServerFrame

\* keys tab, down, shift+tab, up
EditFocus ==
    /\ EditKeys
    /\ \E d \in {1, -1} :
         srv' = [srv EXCEPT !.serverFocused =
                   (@ + d + Len(srv.serverInputs)) % Len(srv.serverInputs)]
    /\ last' = Ev("editFocus", 0, FALSE)
    /\ UNCHANGED <<state, status, tasks, probe, store>>
    /\ ServerFrame

\* any other key goes to the focused input: a word is typed or erased
EditType ==
    /\ EditKeys
    /\ \/ \E w \in Words :
            /\ Len(srv.serverInputs[srv.serverFocused + 1]) < MaxWords
            /\ srv' = [srv EXCEPT !.serverInputs[srv.serverFocused + 1] =
                                    Append(@, w)]
       \/ /\ Len(srv.serverInputs[srv.serverFocused + 1]) > 0
          /\ srv' = [srv EXCEPT !.serverInputs[srv.serverFocused + 1] =
                                  SubSeq(@, 1, Len(@) - 1)]
    /\ last' = Ev("editType", 0, FALSE)
    /\ UNCHANGED <<state, status, tasks, probe, store>>
    /\ ServerFrame

\* the test of key enter: srv.URL == ""
URLMissing_never(server) == FALSE

URLMissing(server) == server.URL = NoText

\* key enter: the profile is built from the inputs; without a URL nothing is
\* stored; an empty name becomes the URL; the profile is appended or replaces
\* the one being edited
EditEnter ==
    /\ EditKeys
    /\ LET typed == [Name |-> srv.serverInputs[1], URL |-> srv.serverInputs[2],
                     Username |-> srv.serverInputs[3],
                     Password |-> srv.serverInputs[4]]
           server == IF typed.Name = NoText
                     THEN [typed EXCEPT !.Name = typed.URL] ELSE typed
       IN IF URLMissing(typed)
          THEN /\ status' = St("URL is required", 0)
               /\ UNCHANGED <<state, srv, store>>
          ELSE /\ state' = "ServerManage"
               /\ UNCHANGED status
               /\ IF srv.editingServer < 0
                  THEN /\ Len(store.Servers) < MaxProfiles
                       /\ store' = AddServer(store, server)
                       /\ srv' = [srv EXCEPT !.serverCursor =
                                                Len(store'.Servers) - 1]
                  ELSE /\ store' = UpdateServer(store, srv.editingServer, server)
                       /\ UNCHANGED srv
    /\ last' = Ev("editEnter", 0, srv.serverInputs[2] # NoText)
    /\ UNCHANGED <<tasks, probe>>
    /\ ServerFrame

----------------------------------------------------------------------------
(* The probe batch: key p, pingSamePrefix, pingServersMsg *)

Latencies == {"fast", "timeout"}

\* key p: ignored while a batch is in progress
ManagePing ==
    /\ ManageKeys
    /\ last' = Ev("p", 0, ~srv.pingInProgress)
    /\ IF srv.pingInProgress
       THEN UNCHANGED <<status, srv, probe>>
       ELSE /\ srv' = [srv EXCEPT !.pingInProgress = TRUE,
                                  !.serverLatencies = NoLatencies]
            /\ status' = St("Pinging servers...", 0)
            /\ probe' = [NoBatch EXCEPT !.phase = "req"]
    /\ UNCHANGED <<state, tasks, store>>
    /\ ServerFrame

ProbeFrame == UNCHANGED <<mvars, storePos, tasks, imgReq, srvFav, srvPos,
                          imageCache, favSet, keys, resizes, mpv, store, call>>

\* the indices of the profiles that share the prefix of the active one
ProbeTargets(active) ==
    {i \in ProfileIds : i < Len(store.Servers) /\ Prefix(i) = ActivePrefix(store)}

\* the command starts: one goroutine per target
StartProbes ==
    /\ probe.phase = "req"
    /\ probe' = [probe EXCEPT !.phase = "running",
                              !.targets = ProbeTargets(store.ActiveServer)]
    /\ last' = Ev("startProbes", 0, FALSE)
    /\ UNCHANGED srv
    /\ ProbeFrame

\* latencies[r.idx] = r.latency: a probe that fails still reports the time
\* it took
Collect_dropsFailures(latencies, i, lat) ==
    IF lat = "timeout" THEN latencies ELSE [latencies EXCEPT ![i] = lat]

Collect(latencies, i, lat) == [latencies EXCEPT ![i] = lat]

\* for range targets { r := <-ch ... }: the loop ends after one receive per
\* target
Joined_first(targets, order) == Len(order) >= 1

Joined(targets, order) == Len(order) = Cardinality(targets)

\* one probe completes and its result is received; order (history) lists
\* the results in the order of completion
ProbeDone ==
    /\ probe.phase = "running"
    /\ \E i \in probe.targets : \E lat \in Latencies :
         /\ \A k \in 1 .. Len(probe.order) : probe.order[k].idx # i
         /\ LET order == Append(probe.order, [idx |-> i, latency |-> lat])
            IN probe' = [probe EXCEPT
                  !.latencies = Collect(probe.latencies, i, lat),
                  !.order = order,
                  !.phase = IF Joined(probe.targets, order)
                            THEN "resp" ELSE "running"]
         /\ last' = Ev("probe", i, lat = "fast")
    /\ UNCHANGED srv
    /\ ProbeFrame

\* case pingServersMsg; the record of the finished batch is kept until the
\* next one starts
DeliverPing ==
    /\ probe.phase = "resp"
    /\ srv' = [srv EXCEPT !.pingInProgress = FALSE,
                          !.serverLatencies = probe.latencies]
    /\ status' = St("Ping complete", 0)
    /\ probe' = [probe EXCEPT !.phase = "idle"]
    /\ last' = Ev("pingDone", 0, TRUE)
    /\ UNCHANGED <<keys, resizes, mpv, store, call, tasks, state>>
    /\ ServerFrame

----------------------------------------------------------------------------
(* The player controller (internal/player/mpv.go) *)

\* the output alphabet: "P" is the literal POS: of the status format, "0" and
\* "1" are digits, "." the decimal point and "x" any other byte
Digits == {"0", "1"}
Chars == {"P", ".", "x"} \cup Digits
Streams == UNION {[1 .. n -> Chars] : n \in 0 .. MaxOut}

bufSize == 256

DigitVal(c) == IF c = "1" THEN 1 ELSE 0

\* the index after the longest run of digits that starts at index i
RECURSIVE DigitsEnd(_, _)
DigitsEnd(data, i) ==
    IF i <= Len(data) /\ data[i] \in Digits THEN DigitsEnd(data, i + 1) ELSE i

\* posRegex POS:(\d+(?:\.\d+)?) tried at index i: no match, or the bounds of
\* the integer digits and the index after the match
MatchAt(data, i) ==
    IF /\ data[i] = "P"
       /\ i + 1 <= Len(data)
       /\ data[i + 1] \in Digits
    THEN LET e1 == DigitsEnd(data, i + 1)
             frac == /\ e1 + 1 <= Len(data)
                     /\ data[e1] = "."
                     /\ data[e1 + 1] \in Digits
         IN [ok |-> TRUE, from |-> i + 1, intEnd |-> e1,
             end |-> IF frac THEN DigitsEnd(data, e1 + 1) ELSE e1]
    ELSE [ok |-> FALSE, from |-> 0, intEnd |-> 0, end |-> 0]

\* FindAllStringSubmatch(data, -1): the leftmost non-overlapping matches
RECURSIVE FindAll(_, _)
FindAll(data, i) ==
    IF i > Len(data) THEN <<>>
    ELSE LET m == MatchAt(data, i)
         IN IF m.ok THEN <<m>> \o FindAll(data, m.end)
            ELSE FindAll(data, i + 1)

\* strconv.ParseFloat of the captured text followed by int64(): the fraction
\* is cut off, the decimal value of the integer digits is left
RECURSIVE DecimalValue(_, _, _)
DecimalValue(data, i, end) ==
    IF i >= end THEN 0
    ELSE LET rest == DecimalValue(data, i, end - 1)
         IN rest * 10 + DigitVal(data[end - 1])

parsePositionFromOutput(data) ==
    LET matches == FindAll(data, 1)
    IN IF Len(matches) = 0 THEN 0
       ELSE LET m == matches[Len(matches)]
            IN DecimalValue(data, m.from, m.intEnd)

\* the end of readPlaybackPosition: the fallback when no offset was kept
readResult_keepsZero(lastPos, fallback) == lastPos

readResult(lastPos, fallback) ==
    IF lastPos = 0 THEN fallback ELSE lastPos

\* a call of PlayMultiple with its inputs: whether a player binary was found
\* at startup, the number of URLs, the start position, and what the process
\* is going to write
InitPlayer ==
    /\ InitModel({{}})
    /\ keys = 0 /\ resizes = 0 /\ call = Idle
    /\ \E found \in BOOLEAN : \E urls \in 0 .. 1 : \E start \in 0 .. MaxStart :
       \E out \in Streams :
          mpv = [NoCall EXCEPT !.phase = "call", !.found = found,
                               !.urls = urls, !.start = start,
                               !.whole = out, !.rest = out]

PlayerFrame == UNCHANGED <<mvars, storePos, tasks, imgReq, srvFav, srvPos,
                           imageCache, last, favSet, keys, resizes, srv, probe, store, call>>

\* the two early returns of PlayMultiple: mpvPath == "" and len(urls) == 0
CanSpawn_ignoresQueue(found, urls) == found

CanSpawn(found, urls) == found /\ urls > 0

\* PlayMultiple up to cmd.Start: without a binary or without URLs it returns
\* an error and position 0
\* spawned records that exec.Command / cmd.Start was reached, ran that the
\* process started
StartPlayer ==
    /\ mpv.phase = "call"
    /\ \E startFails \in BOOLEAN :
         mpv' = IF ~CanSpawn(mpv.found, mpv.urls)
                THEN [mpv EXCEPT !.phase = "done", !.err = TRUE, !.pos = 0]
                ELSE IF startFails
                THEN [mpv EXCEPT !.phase = "done", !.err = TRUE, !.pos = 0,
                                 !.spawned = TRUE]
                ELSE [mpv EXCEPT !.phase = "reading", !.spawned = TRUE,
                                 !.ran = TRUE]
    /\ PlayerFrame

\* one pass of the loop of readPlaybackPosition: Read hands over the next
\* 1 .. 256 bytes of the output
ReadChunk ==
    /\ mpv.phase = "reading"
    /\ \E n \in 1 .. Min(bufSize, Len(mpv.rest)) :
         LET pos == parsePositionFromOutput(SubSeq(mpv.rest, 1, n))
         IN mpv' = [mpv EXCEPT
                      !.rest = SubSeq(mpv.rest, n + 1, Len(mpv.rest)),
                      !.lastPos = IF pos > 0 THEN pos ELSE mpv.lastPos]
    /\ PlayerFrame

\* Read reports the end of the output, cmd.Wait returns the exit status
PlayerExit ==
    /\ mpv.phase = "reading"
    /\ mpv.rest = <<>>
    /\ \E runErr \in BOOLEAN :
         mpv' = [mpv EXCEPT !.phase = "done", !.err = runErr,
                            !.pos = readResult(mpv.lastPos, mpv.start)]
    /\ PlayerFrame

----------------------------------------------------------------------------
(* Continuous playback: the command of playSeasonContinuously *)

\* the episodes GetEpisodes returns are numbered in season order
Season(n) == [k \in 1 .. n |-> k]

\* one run of the command for the episode `item`: the list GetEpisodes
\* returns, the loop index i, the queue built so far (urls, by episode), the
\* episode kept as currentItem (0 for nil), the number of episodes skipped
\* because their item fetch failed, and the arguments handed to PlayMultiple
SeasonCall(n, item) ==
    [fn |-> "playSeasonContinuously", phase |-> "call", episodes |-> Season(n),
     item |-> item, startIdx |-> -1, i |-> 0, urls |-> <<>>, currentItem |-> 0,
     skipped |-> 0, queue |-> <<>>, startIndex |-> 0]

InitSeason ==
    /\ InitModel({{}})
    /\ keys = 0 /\ resizes = 0 /\ mpv = NoCall
    /\ \E n \in 1 .. MaxEpisodes : \E item \in 1 .. MaxEpisodes :
         call = SeasonCall(n, item)

CallFrame == UNCHANGED <<mvars, storePos, tasks, imgReq, srvFav, srvPos,
                         imageCache, last, favSet, keys, resizes, mpv, srv,
                         probe, store>>

\* the index of the selected episode in the list, 0 when it is not there
StartIdx(episodes, item) ==
    IF \E k \in 1 .. Len(episodes) : episodes[k] = item
    THEN (CHOOSE k \in 1 .. Len(episodes) : episodes[k] = item) - 1
    ELSE 0

\* GetEpisodes: a failure or an empty list ends the command with an empty
\* playDoneMsg; else the start index is found
SeasonStart ==
    /\ call.fn = "playSeasonContinuously" /\ call.phase = "call"
    /\ \E fails \in BOOLEAN :
         call' = IF fails
                 THEN [call EXCEPT !.phase = "done"]
                 ELSE [call EXCEPT !.phase = "loop",
                                   !.startIdx = StartIdx(call.episodes, call.item),
                                   !.i = StartIdx(call.episodes, call.item)]
    /\ CallFrame

\* one iteration of the loop over episodes[startIdx:]: an episode whose item
\* fetch fails (or has no media source) is skipped
SeasonLoop ==
    /\ call.fn = "playSeasonContinuously" /\ call.phase = "loop"
    /\ call.i < Len(call.episodes)
    /\ \E ok \in BOOLEAN :
         call' = IF ok
                 THEN [call EXCEPT !.i = @ + 1,
                                   !.urls = Append(@, call.episodes[call.i + 1]),
                                   !.currentItem =
                                       IF call.i = call.startIdx
                                       THEN call.episodes[call.i + 1] ELSE @]
                 ELSE [call EXCEPT !.i = @ + 1, !.skipped = @ + 1]
    /\ CallFrame

\* after the loop: no URL ends the command; else the item of currentItem is
\* fetched again for the start position and once more for the start report,
\* both results are used without a test of the error, and PlayMultiple is
\* called with the queue and startIdx
SeasonLaunch ==
    /\ call.fn = "playSeasonContinuously" /\ call.phase = "loop"
    /\ call.i = Len(call.episodes)
    /\ \E ok1, ok2 \in BOOLEAN :
         call' = IF Len(call.urls) = 0 THEN [call EXCEPT !.phase = "done"]
                 ELSE IF call.currentItem # 0 /\ ~(ok1 /\ ok2)
                 THEN [call EXCEPT !.phase = "panic"]
                 ELSE [call EXCEPT !.phase = "play", !.queue = call.urls,
                                   !.startIndex = call.startIdx]
    /\ CallFrame

----------------------------------------------------------------------------
(* A completion message that Update receives twice in a row *)

\* the part of the session a completion handler may overwrite
Session == <<items, cursor, sectionCache, navStack, detailCache, coverCache>>

\* the copies of a message received twice: field twice numbers them, and the
\* handlers do not read it
Held == {t \in BagToSet(tasks) : t.twice > 0} \cup {r \in imgReq : r.twice > 0}

Copies(m) == {[m EXCEPT !.twice = 1], [m EXCEPT !.twice = 2]}

\* a completion message waiting for Update is received twice
Hold ==
    /\ Held = {}
    /\ \/ \E t \in BagToSet(tasks) :
            /\ t.phase = "resp"
            /\ tasks' = Drop(tasks, t) (+) SetToBag(Copies(t))
            /\ UNCHANGED imgReq
       \/ \E r \in imgReq :
            /\ r.kind = "detail" \/ r.phase = "resp"
            /\ imgReq' = (imgReq \ {r}) \cup Copies(r)
            /\ UNCHANGED tasks
    /\ UNCHANGED <<mvars, storePos, srvFav, srvPos, imageCache, last, favSet,
                   keys, resizes, mpv, srv, probe, store, call>>

\* Update handles one copy; the second copy carries the same message, so the
\* detail it delivers is the one the first delivered
Redeliver ==
    /\ Held # {}
    /\ \/ DeliverItems \/ DeliverFav \/ DeliverPlayDone \/ DeliverConnect
       \/ DeliverImage
       \/ DeliverDetail /\ (Cardinality(Held) = 1 => last'.hit = last.hit)
    /\ \E m \in Held : Held' = Held \ {m}

\* the keys, the commands and the other completions, while no message is
\* being received twice; the cover commands followed are those that run
\* before the first key press
Ordinary ==
    /\ Held = {}
    /\ \/ KeySection \/ KeyFavorite \/ SelectPlay
       \/ KeyManage \/ ManageEnter
       \/ ServeFetch \/ ServeFav \/ ServePlay \/ ServeConnect
       \/ ServeImage /\ keys = MaxTwiceKeys
       \/ DeliverItems \/ DeliverFav \/ DeliverPlayDone \/ DeliverConnect
       \/ DeliverImage \/ DeliverDetail

----------------------------------------------------------------------------
(* The commands as threads of control: their accesses to the store *)

\* every command runs in its own goroutine; the store has no lock, so a
\* command enters a store call whenever it reaches it.  running holds the
\* store calls in progress: who makes the call, what it touches, and whether
\* it writes
NoAccess == [fn |-> "access", running |-> {}, returned |-> 0]

Access(who, what, mode) == [who |-> who, what |-> what, mode |-> mode]

\* the store calls of the commands in flight: loadDetail reads the details
\* (GetMediaDetail) and writes them (SetMediaDetail); the playback command
\* writes them (UpdatePlaybackPosition)
Reachable ==
    {Access("loadDetail", "MediaDetails", m) : m \in
        IF \E r \in imgReq : r.kind = "detail" THEN {"r", "w"} ELSE {}}
    \cup
    {Access("play", "MediaDetails", "w") : t \in
        {u \in BagToSet(tasks) : u.kind = "play" /\ u.phase = "req"}}

InitRace ==
    /\ InitModel({{}})
    /\ keys = MaxNav /\ resizes = 0 /\ mpv = NoCall /\ call = NoAccess

\* a command enters a store call; nothing makes it wait for another one
BeginAccess ==
    /\ call.fn = "access"
    /\ call.returned + Cardinality(call.running) < MaxCalls
    /\ \E a \in Reachable :
         /\ \A b \in call.running : b.who # a.who
         /\ call' = [call EXCEPT !.running = @ \cup {a}]
    /\ CallFrame

\* the store call returns
EndAccess ==
    /\ call.fn = "access"
    /\ \E a \in call.running :
         call' = [call EXCEPT !.running = @ \ {a}, !.returned = @ + 1]
    /\ CallFrame

----------------------------------------------------------------------------
(* Specifications *)

Next ==
    \/ KeyLeft \/ KeyRight \/ SelectDrill \/ SelectFolder \/ KeySeason \/ goBack
    \/ KeySection \/ KeyRefresh \/ KeyFavorite \/ KeySearch
    \/ SearchType \/ SearchEsc \/ SearchEnter \/ SelectPlay
    \/ ServeFetch \/ ServeFav \/ ServePlay
    \/ DeliverItems \/ DeliverPlayDone \/ DeliverFav
    \/ ServeImage \/ DeliverImage \/ DeliverDetail \/ Resize
    \/ KeyManage \/ ManageEsc \/ ManageMove \/ ManageEnter \/ ManagePing
    \/ ServeConnect \/ DeliverConnect
    \/ StartProbes \/ ProbeDone \/ DeliverPing

Spec == Init /\ [][Next]_vars

\* favorite toggles, drill-in and back only
NextFav ==
    \/ KeyLeft \/ KeyRight \/ SelectDrill \/ KeySeason \/ goBack
    \/ KeyFavorite \/ ServeFetch \/ ServeFav \/ DeliverItems \/ DeliverFav

SpecFav == Init /\ [][NextFav]_vars

\* fan-out mutations: favorite toggles and playback, with drill-in, back and
\* section switches
NextSync ==
    \/ KeyLeft \/ KeyRight \/ SelectDrill \/ KeySeason \/ goBack
    \/ KeySection \/ KeyFavorite \/ SelectPlay
    \/ ServeFetch \/ ServeFav \/ ServePlay
    \/ DeliverItems \/ DeliverFav \/ DeliverPlayDone

SpecSync == Init /\ [][NextSync]_vars

\* sections, search, refresh and navigation, without item mutations
NextSec ==
    \/ KeyLeft \/ KeyRight \/ SelectDrill \/ KeySeason \/ goBack
    \/ KeySection \/ KeyRefresh \/ KeySearch
    \/ SearchType \/ SearchEsc \/ SearchEnter
    \/ ServeFetch \/ DeliverItems

SpecSec == Init /\ [][NextSec]_vars

\* cover images: resizes and section switches with the image commands they
\* issue
NextImg ==
    \/ KeySection
    \/ ServeFetch \/ DeliverItems
    \/ ServeImage \/ DeliverImage \/ Resize

SpecImg == InitImg /\ [][NextImg]_vars

\* server management: switching the active server and probing the profiles
\* of its prefix, with the list and detail commands of the session
InitSrv ==
    /\ InitModel({{}})
    /\ keys = MaxSrvKeys /\ resizes = 0 /\ mpv = NoCall /\ call = Idle

NextSrv ==
    \/ KeyManage \/ ManageEsc \/ ManageMove \/ ManageEnter \/ ManagePing
    \/ ServeConnect \/ DeliverConnect
    \/ StartProbes \/ ProbeDone \/ DeliverPing
    \/ ServeFetch \/ DeliverItems \/ DeliverDetail

SpecSrv == InitSrv /\ [][NextSrv]_vars

\* the profile list: adding, editing and deleting profiles
NextEdit ==
    \/ KeyManage \/ ManageMove \/ ManageAdd \/ ManageEdit \/ ManageDelete
    \/ EditEsc \/ EditFocus \/ EditType \/ EditEnter

SpecEdit == InitSrv /\ [][NextEdit]_vars

\* the data files: switches and deletions of the active server with the
\* detail commands that write the store, for the items the cursor reaches
InitStore ==
    /\ InitModel({{}})
    /\ keys = MaxStoreKeys /\ resizes = 0 /\ mpv = NoCall /\ call = Idle

NextStore ==
    \/ KeyRight
    \/ KeyManage \/ ManageMove \/ ManageEnter \/ ManageDelete
    \/ ServeConnect \/ DeliverConnect
    \/ ServeFetch \/ DeliverItems \/ DeliverDetail

SpecStore == InitStore /\ [][NextStore]_vars

\* one run of the continuous-playback command
NextSeason == SeasonStart \/ SeasonLoop \/ SeasonLaunch

SpecSeason == InitSeason /\ [][NextSeason]_vars

\* resuming: the catalog holds positions left by other clients, some of less
\* than one second, and the data file holds local positions
ServerTicks == {0, TicksPerSecond \div 2, 2 * TicksPerSecond}

InitResume ==
    /\ InitWith({{}}, ServerTicks, 0 .. MaxStart)
    /\ keys = MaxNav /\ resizes = 0 /\ mpv = NoCall /\ call = Idle

NextResume ==
    \/ KeyLeft \/ KeyRight \/ SelectPlay
    \/ ServeFetch \/ ServePlay
    \/ DeliverItems \/ DeliverPlayDone

SpecResume == InitResume /\ [][NextResume]_vars

\* a session in which completion messages may be received twice in a row
InitTwice ==
    /\ InitModel({{4}})
    /\ keys = MaxTwiceKeys /\ resizes = 0 /\ mpv = NoCall /\ call = Idle

NextTwice == Ordinary \/ Hold \/ Redeliver

SpecTwice == InitTwice /\ [][NextTwice]_vars

\* browsing a paginated folder: the folder is the catalog's only favorite
InitFolder ==
    /\ InitModel({{5}})
    /\ keys = MaxFolderKeys /\ resizes = 0 /\ mpv = NoCall /\ call = Idle

NextFolder ==
    \/ KeyLeft \/ KeyRight \/ SelectFolder \/ goBack \/ KeySection
    \/ ServeFetch \/ DeliverItems

SpecFolder == InitFolder /\ [][NextFolder]_vars

\* the start of a session, with and without stored server profiles, and
\* the first profile added and connected
InitStart ==
    /\ InitOn({StoreAtStart, NoServers}, {{}}, {0}, {0})
    /\ keys = MaxSrvKeys /\ resizes = 0 /\ mpv = NoCall /\ call = Idle

NextStart ==
    \/ KeyManage \/ ManageMove \/ ManageAdd \/ ManageEnter
    \/ EditEsc \/ EditFocus \/ EditType \/ EditEnter
    \/ ServeConnect \/ DeliverConnect \/ ServeFetch \/ DeliverItems

SpecStart == InitStart /\ [][NextStart]_vars

\* the store calls of the detail and playback commands of one session
NextRace ==
    \/ KeyLeft \/ KeyRight \/ SelectPlay
    \/ ServeFetch \/ ServePlay
    \/ DeliverItems \/ DeliverDetail \/ DeliverPlayDone
    \/ BeginAccess \/ EndAccess

SpecRace == InitRace /\ [][NextRace]_vars

\* one call of PlayMultiple
NextPlayer == StartPlayer \/ ReadChunk \/ PlayerExit

SpecPlayer == InitPlayer /\ [][NextPlayer]_vars

----------------------------------------------------------------------------
(* Claims *)

FavFlag(i) == favSet[i] = "T"

\* C1: in every run of toggle-favorite, drill-in and back events, the list
\* restored by 'back' shows, for every item whose toggle has completed
\* successfully, the flag that the last completed toggle set.
C1_BackShowsToggledFlag ==
    (last.ev = "back" /\ last.hit) =>
        \A k \in 1 .. Len(items) :
            favSet[items[k].id] # "none" => items[k].fav = FavFlag(items[k].id)

\* the list `new` is the list `old` with the field of item id X set to v and
\* nothing else changed
FannedOut(old, new, e) ==
    /\ Len(new) = Len(old)
    /\ \A k \in 1 .. Len(old) :
         new[k] = IF old[k].id # e.id THEN old[k]
                  ELSE IF e.ev = "favDone" THEN [old[k] EXCEPT !.fav = e.flag]
                  ELSE [old[k] EXCEPT !.pos = e.n * TicksPerSecond]

IsMutation(e) == (e.ev = "favDone" /\ e.hit) \/ e.ev = "playDone"

\* C2: immediately after a successful favorite completion or a playback
\* completion for item X is handled, every copy of X in the displayed list,
\* in every section-cache list and in every navigation snapshot holds the new
\* flag (the new position in ticks), and no other item, length or order changed.
C2_FanOutEverywhere ==
    [][IsMutation(last') =>
        /\ FannedOut(items, items', last')
        /\ Len(navStack') = Len(navStack)
        /\ \A i \in 1 .. Len(navStack) :
             FannedOut(navStack[i].Items, navStack'[i].Items, last')
        /\ \A s \in Sections :
             sectionCache'[s].has =>
                /\ sectionCache[s].has
                /\ FannedOut(sectionCache[s].list, sectionCache'[s].list, last')
      ]_vars

Holds(list, i) == \E k \in 1 .. Len(list) : list[k].id = i

\* a playback completion was handled for an item that is displayed, cached
\* under a section and held by a navigation snapshot, next to another item
C2_Witness ==
    /\ last.ev = "playDone"
    /\ last.n > 0
    /\ Holds(items, last.id)
    /\ \E k \in 1 .. Len(items) : items[k].id # last.id
    /\ \E s \in Sections : sectionCache[s].has /\ Holds(sectionCache[s].list, last.id)
    /\ \E i \in 1 .. Len(navStack) : Holds(navStack[i].Items, last.id)

\* C3: a list-fetch completion issued for section S and delivered while a
\* different section T is current updates only S's cache entry: the displayed
\* list, the cursor and T's cache entry are unchanged.
C3_StaleCompletionOnlyCaches ==
    [][(last'.ev = "items" /\ last'.hit /\ last'.sec # section) =>
        /\ items' = items
        /\ cursor' = cursor
        /\ sectionCache'[section] = sectionCache[section]
        /\ sectionCache'[last'.sec].has
      ]_vars

\* C4: a push records section, list, cursor and title as they are; the
\* snapshots on the stack change only by fan-out mutations; the matching pop
\* restores the four fields from the snapshot and issues no list fetch.
C4_PushPopRestores ==
    [][/\ Len(navStack') = Len(navStack) + 1 =>
            /\ navStack'[Len(navStack')] =
                 [Section |-> section, Items |-> items, Cursor |-> cursor,
                  Title |-> status]
            /\ SubSeq(navStack', 1, Len(navStack)) = navStack
       /\ (last'.ev = "back" /\ last'.hit) =>
            /\ section' = navStack[Len(navStack)].Section
            /\ items' = navStack[Len(navStack)].Items
            /\ cursor' = navStack[Len(navStack)].Cursor
            /\ status' = navStack[Len(navStack)].Title
            /\ navStack' = SubSeq(navStack, 1, Len(navStack) - 1)
            /\ tasks' = tasks
       /\ \A i \in 1 .. Min(Len(navStack), Len(navStack')) :
            \/ navStack'[i] = navStack[i]
            \/ /\ IsMutation(last')
               /\ navStack'[i].Section = navStack[i].Section
               /\ navStack'[i].Cursor = navStack[i].Cursor
               /\ navStack'[i].Title = navStack[i].Title
               /\ FannedOut(navStack[i].Items, navStack'[i].Items, last')
      ]_vars

\* a pop restored a list holding an item whose favorite toggle has completed
C4_Witness ==
    /\ last.ev = "back" /\ last.hit
    /\ \E k \in 1 .. Len(items) : favSet[items[k].id] # "none"

\* C5: after every event that changes the current top-level section (keys 1
\* and 2, a submitted search) the navigation stack is empty.
C5_StackEmptyAfterSectionChange ==
    (last.ev = "switch" \/ (last.ev = "searchEnter" /\ last.hit)) =>
        navStack = <<>>

\* C6 as claimed: a switch to a section with a cache entry shows the cached
\* list with the saved cursor, moves to Browsing and issues no request at all;
\* only a switch to a section without an entry issues a list fetch.
C6_HitIssuesNothing ==
    [][last'.ev = "switch" =>
        /\ sectionCache[section'].has =>
             /\ items' = sectionCache[section'].list
             /\ cursor' = sectionCursor'[section']
             /\ state' = "Browsing"
             /\ tasks' = tasks
             /\ imgReq' = imgReq
        /\ tasks' # tasks => ~sectionCache[section'].has
      ]_vars

\* C6 amended: a switch to a section whose cache entry holds at least one
\* item shows the cached list with the saved cursor, moves to Browsing and
\* issues no list fetch; a switch to a section whose entry is missing or
\* empty issues the section's list fetch.
C6_HitIssuesNoListFetch ==
    [][last'.ev = "switch" =>
        IF sectionCache[section'].has /\ Len(sectionCache[section'].list) > 0
        THEN /\ items' = sectionCache[section'].list
             /\ cursor' = sectionCursor'[section']
             /\ state' = "Browsing"
             /\ tasks' = tasks
        ELSE /\ state' = "Loading"
             /\ \E t \in BagToSet(tasks') :
                  /\ t.kind = "fetch" /\ t.phase = "req"
                  /\ t.what = (IF section' = "Resume" THEN "resume" ELSE "favorites")
                  /\ CopiesIn(t, tasks') = CopiesIn(t, tasks) + 1
      ]_vars

\* a switch hit a non-empty cache entry and requested covers for its items
C6_Witness ==
    /\ last.ev = "switch" /\ last.hit
    /\ state = "Browsing"
    /\ Len(items) > 0
    /\ \E r \in imgReq : r.kind = "image" /\ Holds(items, r.id)

\* C7: key r removes exactly the current section's cache entry; the entries
\* and saved cursors of all other sections are unchanged.
C7_RefreshEvictsOnlyCurrent ==
    [][last'.ev = "refresh" =>
        /\ ~sectionCache'[section].has
        /\ \A s \in Sections \ {section} : sectionCache'[s] = sectionCache[s]
        /\ sectionCursor' = sectionCursor
      ]_vars

\* a refresh evicted the current entry while another section stays cached
C7_Witness ==
    /\ last.ev = "refresh" /\ last.hit
    /\ \E s \in Sections \ {section} :
         sectionCache[s].has /\ Len(sectionCache[s].list) > 0

\* C8: a resize leaves the cover cache empty, and once the terminal has a
\* size the cover cache gains an entry only for an item displayed at an index
\* within cursor-2 .. cursor+2, whatever completion is delivered.
InWindow(i) ==
    \E k \in Max(cursor' - 2, 0) .. Min(cursor' + 2, Len(items') - 1) :
        items'[k + 1].id = i

C8_ResizeEmptiesThenWindowOnly ==
    [][/\ last'.ev = "resize" => \A i \in Ids : ~coverCache'[i].has
       /\ width > 0 =>
            \A i \in Ids : (coverCache'[i].has /\ ~coverCache[i].has) => InWindow(i)
      ]_vars

\* C9: once the terminal has a size, every image the render path returned
\* for a request made with the current cover dimensions was rendered for
\* those dimensions.
C9_RenderedForCurrentSize ==
    width > 0 =>
        \A r \in imgReq :
            (/\ r.kind = "image" /\ r.phase = "resp"
             /\ r.w = coverWidth(width) /\ r.h = coverHeight(height))
            => (r.rw = r.w /\ r.rh = r.h)

\* a status line is the text POS: followed by a number
HasStatusLine(out) ==
    \E i \in 1 .. Len(out) - 1 : out[i] = "P" /\ out[i + 1] \in Digits

\* C10: a PlayMultiple call whose process ran and exited, normally or with an
\* error, without writing a status line returns exactly the start position.
C10_NoStatusReturnsStart ==
    (mpv.phase = "done" /\ mpv.ran /\ ~HasStatusLine(mpv.whole))
        => mpv.pos = mpv.start

\* a process that wrote text without any status line and exited with an
\* error, started from a positive position
C10_Witness ==
    /\ mpv.phase = "done" /\ mpv.ran /\ mpv.err
    /\ ~HasStatusLine(mpv.whole)
    /\ \E i \in 1 .. Len(mpv.whole) : mpv.whole[i] = "P"
    /\ mpv.start > 0
    /\ mpv.pos = mpv.start

\* the offset of the last status line of the whole output
LastStatusOffset(out) == parsePositionFromOutput(out)

\* C11: a PlayMultiple call whose process wrote status lines and exited
\* returns the offset of the last status line written, whatever came before.
C11_LastStatusWins ==
    (mpv.phase = "done" /\ mpv.ran /\ HasStatusLine(mpv.whole))
        => mpv.pos = LastStatusOffset(mpv.whole)

\* C12: a PlayMultiple call with an empty queue, and likewise one made when
\* no player binary was resolved, ends with a failure result without
\* spawning a process.
C12_NoSpawnWithoutQueueOrBinary ==
    (mpv.phase \in {"reading", "done"} /\ (mpv.urls = 0 \/ ~mpv.found))
        => /\ mpv.phase = "done"
           /\ mpv.err
           /\ ~mpv.spawned
           /\ ~mpv.ran

\* a call with a resolved binary and an empty queue has returned
C12_Witness ==
    /\ mpv.phase = "done" /\ mpv.found /\ mpv.urls = 0
    /\ mpv.err /\ ~mpv.spawned

Entries(latencies) == {i \in ProfileIds : latencies[i] # "none"}

\* C13: a probe batch runs one probe per profile that shares the prefix of
\* the active profile, and the mapping it delivers has exactly one entry per
\* such profile, also when probes fail.
C13_OneEntryPerMatchingProfile ==
    [][/\ last'.ev = "startProbes" =>
            probe'.targets = {i \in ProfileIds : Prefix(i) = Prefix(store.ActiveServer)}
       /\ last'.ev = "pingDone" =>
            /\ Entries(srv'.serverLatencies) = probe.targets
            /\ Cardinality(Entries(srv'.serverLatencies)) =
                 Cardinality(probe.targets)
      ]_vars

\* a batch over two profiles was delivered with a failed probe in it
C13_Witness ==
    /\ last.ev = "pingDone"
    /\ Cardinality(probe.targets) = 2
    /\ Cardinality(Entries(srv.serverLatencies)) = 2
    /\ \E i \in ProfileIds : srv.serverLatencies[i] = "timeout"

\* C14: the batch completion is delivered only after every probe of the batch
\* has completed, the mapping delivered is complete, and it holds for every
\* profile the result of that profile's probe, whatever the completion order.
C14_JoinBeforeDelivery ==
    [][/\ probe'.phase = "resp" =>
            \A i \in probe'.targets :
                \E k \in 1 .. Len(probe'.order) : probe'.order[k].idx = i
       /\ last'.ev = "pingDone" =>
            /\ probe.phase = "resp"
            /\ Len(probe.order) = Cardinality(probe.targets)
            /\ \A k \in 1 .. Len(probe.order) :
                 srv'.serverLatencies[probe.order[k].idx] = probe.order[k].latency
            /\ Entries(srv'.serverLatencies) = probe.targets
            /\ ~srv'.pingInProgress
      ]_vars

\* a batch was delivered whose probes completed against the profile order,
\* with different results
C14_Witness ==
    /\ last.ev = "pingDone"
    /\ Len(probe.order) = 2
    /\ probe.order[1].idx > probe.order[2].idx
    /\ probe.order[1].latency # probe.order[2].latency
    /\ srv.serverLatencies[probe.order[1].idx] = probe.order[1].latency

\* switching the active server with the image and detail commands of the
\* session, so that both caches hold entries when the switch happens
NextSwitch ==
    \/ KeyManage \/ ManageMove \/ ManageEnter
    \/ ServeConnect \/ DeliverConnect
    \/ ServeFetch \/ DeliverItems
    \/ ServeImage \/ DeliverImage \/ DeliverDetail

SpecSwitch == InitSrv /\ [][NextSwitch]_vars

\* C15: a successful switch of the active server to a profile that shares
\* the prefix of the previously active profile discards neither the detail
\* cache nor the image cache (the covers kept per item id).
C15_SamePrefixKeepsCaches ==
    [][(last'.ev = "connect" /\ last'.hit /\ last'.flag) =>
          /\ detailCache' = detailCache
          /\ coverCache' = coverCache
      ]_vars

\* C16: after any sequence of switch attempts, some of which may fail to
\* connect, whenever a connect succeeds to a profile whose prefix differs
\* from the prefix under which detail cache entries were fetched, the detail
\* cache and the image cache are both empty.
C16_OtherPrefixEmptiesCaches ==
    [][(/\ last'.ev = "connect" /\ last'.hit
        /\ \E p \in srv.detailFrom : p # Prefix(store.ActiveServer)) =>
          /\ detailCache' = {}
          /\ coverCache' = [i \in Ids |-> NoCover]
      ]_vars

\* C17: after a failed list-fetch completion is handled, the state is
\* Browsing, the displayed list is empty and the status holds a user-visible
\* error message.
C17_FailedFetchBrowsingEmpty ==
    (last.ev = "items" /\ ~last.hit) =>
        /\ state = "Browsing"
        /\ Len(items) = 0
        /\ status = St("Error", 0)

\* C18: when a list fetch issued by a user action (drill-in, page change,
\* section switch, refresh) fails, the prior view is intact: displayed items,
\* cursor, page number and navigation-stack depth are the same as before the
\* action that issued the fetch.  Stated for the runs in which the request is
\* answered and its failure handled right after the action.
C18_FailedFetchKeepsPriorView ==
    [][(/\ last.ev = "serveFetch" /\ last.prior # NoView
        /\ BagCardinality(tasks) = 1
        /\ last'.ev = "items" /\ ~last'.hit) =>
          View' = last.prior
      ]_vars

\* C19: a failed favorite-toggle completion sets an error status and mutates
\* nothing else: the displayed list, every section cache and every
\* navigation snapshot are as before, and no refresh is issued (the only
\* change to the commands in flight is that the completion is consumed).
C19_FailedToggleMutatesNothing ==
    [][(last'.ev = "favDone" /\ ~last'.hit) =>
          /\ status' = St("Favorite error", 0)
          /\ items' = items
          /\ sectionCache' = sectionCache
          /\ navStack' = navStack
          /\ favSet' = favSet
          /\ state' = state
          /\ BagCardinality(tasks') = BagCardinality(tasks) - 1
          /\ \A t \in BagToSet(tasks') : CopiesIn(t, tasks') <= CopiesIn(t, tasks)
          /\ imgReq' = imgReq
          /\ UNCHANGED <<section, totalItems, page, cursor, currentLib,
                         searchInput, coverCache, detailCache, sectionCursor,
                         lastPlayPosition, storePos>>
      ]_vars

\* a failed removal arrives while the Favorites list is displayed, the case
\* in which a successful one refreshes the view
C19_Witness ==
    /\ last.ev = "favDone" /\ ~last.hit /\ ~last.flag
    /\ section = "Favorites"
    /\ status = St("Favorite error", 0)
    /\ \E k \in 1 .. Len(items) : items[k].id = last.id /\ items[k].fav

\* C20: when the player cannot be launched, selecting a playable item reports
\* the failure to the user and makes no partial state change: the persisted
\* playback position of the item and the playback position of every cached
\* copy of the item are the same as before.
C20_FailedLaunchChangesNothing ==
    [][/\ (last'.ev = "servePlay" /\ last'.flag) => storePos' = storePos
       /\ (last'.ev = "playDone" /\ last'.flag) =>
            /\ status' # St("Playback finished", 0)
            /\ items' = items
            /\ sectionCache' = sectionCache
            /\ navStack' = navStack
      ]_vars

C22_EmptyURLRejected ==
    [][(last'.ev = "editEnter" /\ ~last'.hit) =>
          /\ store' = store
          /\ state = "ServerEdit" /\ state' = "ServerEdit"
          /\ srv' = srv
          /\ status' = St("URL is required", 0)
      ]_vars

\* a profile with a name and no URL was submitted, while another profile was
\* being edited
C22_Witness ==
    /\ last.ev = "editEnter" /\ ~last.hit
    /\ state = "ServerEdit"
    /\ srv.serverInputs[1] # NoText /\ srv.serverInputs[2] = NoText
    /\ srv.editingServer >= 0
    /\ status = St("URL is required", 0)

\* C30: after any sequence of active-server switches, deletions, detail
\* writes and playback-position writes, the data held and saved for prefix P
\* contains only entries that were written while a profile with prefix P was
\* active.
C30_DataPartitionedByPrefix ==
    /\ \A p \in PrefixNames : \A i \in Ids :
         store.files[p].exists => store.files[p].data[i] \in {"none", p}
    /\ \A i \in Ids : store.data[i] \in {"none", store.dataPath}

\* C23: under every combination of remote-call failures, no event handler
\* and no asynchronous task reaches a crash state (such as dereferencing the
\* missing result of a failed item fetch).
C23_NoCrashUnderFailures == call.fn = "playSeasonContinuously" => call.phase # "panic"

\* C27: continuous playback started on the episode at position k of its
\* season hands the player a queue made of that episode followed by all
\* following episodes in season order, and the start index passed with the
\* queue addresses the selected episode inside the queue passed.  Stated for
\* the runs in which no item fetch failed.
C27_QueueStartsAtSelected ==
    (/\ call.fn = "playSeasonContinuously" /\ call.phase = "play"
     /\ call.skipped = 0
     /\ \E k \in 1 .. Len(call.episodes) : call.episodes[k] = call.item) =>
        /\ call.queue = SubSeq(call.episodes, call.startIdx + 1, Len(call.episodes))
        /\ call.startIndex < Len(call.queue)
        /\ call.queue[call.startIndex + 1] = call.item

\* C24: no network call is executed by the event loop's own handlers: every
\* catalog request, including the item fetch and the playback-start report
\* made when an item is selected for playback, runs inside an asynchronous
\* task whose completion re-enters as an event.
C24_HandlersMakeNoRemoteCall == last.net = {}

\* C25: no shared mutable state is accessed by more than one thread of
\* control at a time: the persistent store's maps are never written by one
\* thread while read or written by another.
C25_NoConcurrentAccess ==
    \A a, b \in call.running :
        (a # b /\ a.what = b.what) => (a.mode = "r" /\ b.mode = "r")

\* C28: when the unfavorite of item B has just been handled while a section
\* other than Favorites is current, and Favorites is then re-entered through
\* its cached list, the list shown does not contain B.
C28_UnfavoritedAbsentFromCachedFavorites ==
    [][(/\ last.ev = "favDone" /\ last.hit /\ ~last.flag
        /\ section # "Favorites"
        /\ CacheHit(sectionCache, "Favorites")
        /\ last'.ev = "switch" /\ section' = "Favorites")
       => \A k \in 1 .. Len(items') : items'[k].id # last.id]_vars

\* C29: the start position playItem hands to the player is the server-side
\* position in whole seconds (ticks / 10,000,000) whenever the server reports
\* a position for the item, and the locally stored position only when the
\* server has none.
C29_ServerPositionFirst ==
    (last.ev = "play" /\ last.hit) =>
        last.n = IF srvPos[last.id] > 0
                 THEN srvPos[last.id] \div TicksPerSecond
                 ELSE storePos[last.id]

\* C26: when Update handles the second copy of a completion message right
\* after the first, the displayed list, the cursor, the section caches, the
\* navigation stack and the detail and cover caches stay as the first
\* handling left them, for every kind of completion.
C26_SecondHandlingChangesNothing ==
    [][(Cardinality(Held) = 1 /\ Held' = {}) => Session' = Session]_vars

\* a completion that changed the session has been handled once and its
\* second copy is about to be handled
C26_Witness ==
    /\ Cardinality(Held) = 1
    /\ last.ev \in {"items", "favDone", "playDone", "connect", "image", "detail"}
    /\ last.hit

\* the displayed list is a page of the folder's listing
ShowsFolderPage == IdsOf(items) = IdsOf(ServerList("items", 5))

\* C31: cursor-left at index 0 and cursor-right at the last index issue a page
\* fetch only when the displayed list is a page of a folder listing; in every
\* other view, a section's root list restored by back included, the key
\* issues no fetch and changes neither the page nor the state.
C31_PageFetchOnlyInsideFolder ==
    [][(last'.ev \in {"left", "right"} /\ ~ShowsFolderPage)
       => (tasks' = tasks /\ page' = page /\ state' = state)]_vars

\* C32: when the session starts, the state is ServerManage if no server
\* profile is stored and Loading otherwise, and in the ServerManage case no
\* list fetch has been issued.
C32_InitialStateFollowsProfiles ==
    last.ev = "init" =>
        /\ state = (IF Len(store.Servers) = 0 THEN "ServerManage" ELSE "Loading")
        /\ state = "ServerManage" => tasks = EmptyBag

\* a session has started on a store without server profiles
C32_Witness ==
    last.ev = "init" /\ Len(store.Servers) = 0 /\ state = "ServerManage"

\* C33: handling a successful list-fetch completion sets the displayed list
\* to the delivered list, the cursor to 0 and the state to Browsing, and
\* stores the delivered list with saved cursor 0 as the cache entry of the
\* section that is current when the completion is handled.
C33_ListCompletionSeedsCurrentSection ==
    [][(last'.ev = "items" /\ last'.hit) =>
         \E t \in BagToSet(tasks) :
            /\ t.kind = "fetch" /\ t.phase = "resp" /\ ~t.err
            /\ tasks' = Drop(tasks, t)
            /\ items' = t.list /\ cursor' = 0 /\ state' = "Browsing"
            /\ sectionCache'[section] = [has |-> TRUE, list |-> t.list]
            /\ sectionCursor'[section] = 0]_vars

\* a list requested under one section has been delivered while another
\* section is current, and seeds the entry of the current one
C33_Witness ==
    /\ last.ev = "items" /\ last.hit /\ last.sec # section
    /\ sectionCache[section].has /\ sectionCache[section].list = items
    /\ Len(items) > 0

\* C34: in every reachable state in which the displayed list is not empty,
\* the cursor is an index of the displayed list: 0 <= cursor < Len(items).
C34_CursorInsideList ==
    Len(items) > 0 => (0 <= cursor /\ cursor < Len(items))

\* the lists of the section loaders (loadResume, loadFavorites, searchItems)
RootLists == {"resume", "favorites", "search"}

\* C35: the cache entry of a section holds the list of the section's own
\* loader: the delivery of a child list (seasons, episodes, folder items)
\* requested by drilling in never replaces a cache entry.
C35_ChildListLeavesCache ==
    [][\A t \in BagToSet(tasks) :
          (/\ t.kind = "fetch" /\ t.phase = "resp" /\ ~t.err
           /\ t.what \notin RootLists
           /\ last'.ev = "items" /\ tasks' = Drop(tasks, t))
          => sectionCache' = sectionCache]_vars

\* what readPlaybackPosition returns when the whole output arrives in one read
OneRead(out, fallback) == readResult(parsePositionFromOutput(out), fallback)

\* C36: the position a PlayMultiple call returns does not depend on how the
\* output of the process is split into reads: for every output and every
\* chunking it is the position returned when the whole output arrives in a
\* single read.
C36_ChunkingDoesNotMatter ==
    (mpv.phase = "done" /\ mpv.ran) => mpv.pos = OneRead(mpv.whole, mpv.start)

\* C37: when the only connection attempt in flight fails, the persisted
\* active-server index is the one that was active before the attempt, the
\* state returns to ServerManage, and section, displayed list, caches and
\* navigation stack are unchanged.
C37_FailedConnectKeepsPreviousServer ==
    [][\A t \in BagToSet(tasks) :
          (/\ t.kind = "connect" /\ t.phase = "resp" /\ t.err
           /\ \A u \in BagToSet(tasks) : u.kind = "connect" => u = t
           /\ CopiesIn(t, tasks) = 1
           /\ last'.ev = "connect" /\ tasks' = Drop(tasks, t))
          => /\ store'.ActiveServer = t.arg
             /\ state' = "ServerManage"
             /\ UNCHANGED <<section, items, sectionCache, coverCache,
                            detailCache, navStack>>]_vars

\* C38: deleting a server profile other than the active one leaves the same
\* profile active: the active index denotes after the deletion the profile it
\* denoted before, wherever the deleted profile stands.
C38_DeleteKeepsActiveProfile ==
    [][(/\ last'.ev = "d" /\ last'.hit
        /\ validServerIndex(store, store.ActiveServer)
        /\ srv.serverCursor # store.ActiveServer)
       => /\ validServerIndex(store', store'.ActiveServer)
          /\ store'.Servers[store'.ActiveServer + 1] =
                store.Servers[store.ActiveServer + 1]]_vars

\* C39: at quiescence (no command in flight and every completion handled)
\* the favorite flag shown for every displayed item is the flag the catalog
\* holds for it.
C39_QuiescentFlagsMatchCatalog ==
    tasks = EmptyBag =>
        \A k \in 1 .. Len(items) : items[k].fav = srvFav[items[k].id]

=============================================================================
